---------------------------- MODULE Spec2Model ----------------------------
(***************************************************************************)
(* Model of the caching and fetch-coordination layer of CokeDividendosApp: *)
(*   src/services/cache_store.py      the SQLite key/value cache           *)
(*   src/services/finance_data.py     _cache_get_or_set (memoizer)         *)
(*   src/services/yf_client.py        yf_call (throttle + retry/backoff)   *)
(*   src/services/rapidapi_client.py  rapidapi_get / rapidapi_cached_get   *)
(*   src/services/sec_client.py       get_json                             *)
(*   src/services/usage_limits.py     consume_search (daily quota)         *)
(*                                                                         *)
(* Wall-clock time is the variable clock, counted in ticks of              *)
(* 1/TicksPerSec second; int(time.time()) is IntTime(clock).               *)
(* Python values are records tagged by type; an Optional[...] column or    *)
(* argument is a set: {} for None/NULL, {n} for the value n.               *)
(***************************************************************************)
EXTENDS Integers, Sequences, FiniteSets, TLC

VARIABLES
    clock,      \* time.time(), in ticks
    store,      \* table kv_cache: key -> row, DOMAIN store = the keys present
    sop,        \* SpecStore: the last cache_store operation, what it returned and
                \* whether it found a row (for a cache_set: a different row) under
                \* its key; for cache_clear, key is the prefix, prefix the argument
                \* ({} for None) and found tells whether the table held any row
    lastSet,    \* SpecStore history: key -> <<>> or <<the latest cache_set not
                \* followed by a write, delete or clear of that key>>
    mpc,        \* SpecMemo: where the _cache_get_or_set call is ("idle", "loading")
    mttl,       \* SpecMemo: the ttl the key is always requested with
    mcur,       \* SpecMemo: what the call in progress saw when it began
    mres,       \* SpecMemo: the outcome of the last completed call
    mstored,    \* SpecMemo history: <<>> or <<the latest successful load>>
    wall,       \* SpecYF: time.time() in tenths of a second
    lastReqTs,  \* yf_client._LAST_REQ_TS, in tenths of a second
    ypc,        \* SpecYF: where yf_call is ("try", "call", "done")
    ymax,       \* SpecYF: max_attempts
    yattempt,   \* SpecYF: attempt, the loop variable
    ylast,      \* SpecYF: last, <<>> (None) or <<the exception kept>>
    yres,       \* SpecYF: how yf_call ended
    yhist,      \* SpecYF history: thunk invocations, backoff sleeps, their sums
    reqLock,    \* yf_client._REQ_LOCK: {} when free, {t} when thread t holds it
    tpc,        \* SpecThrottle: thread -> where its yf_call is
    tloc,       \* SpecThrottle: thread -> its attempt, max_attempts, wake-up time
    thist,      \* SpecThrottle history: the throttle stamps and the thunk starts
    client,     \* SpecHttp: the client exercised ("rapid", "sec", "yf", "none")
    rcfg,       \* SpecHttp: RAPIDAPI_KEY set or not, ttl_seconds, error_ttl_seconds
    rpc,        \* SpecHttp: where rapidapi_cached_get is ("idle", "request")
    rattempt,   \* SpecHttp: attempt, the loop variable of rapidapi_get
    rres,       \* SpecHttp: how the last rapidapi_cached_get ended
    rhist,      \* SpecHttp history: requests of the call, the last upstream outcome
    rtrack,     \* SpecHttp history: the latest failure that left an error marker, and
                \* when the latest rapidapi_cached_get call began and what it found
    secWall,    \* SpecHttp: time.time() in units of _MIN_INTERVAL_SEC (0.25 s)
    secLastCallTs, \* sec_client._last_call_ts, in the same units
    sres,       \* SpecHttp: how the last sec_client.get_json ended
    qlimit,     \* SpecQuota: daily_limit
    qres,       \* SpecQuota: the last usage_limits call and what it returned
    qcalls,     \* SpecQuota history: email -> UTC day and number of the consume_search
                \* calls made on it, for the day of the email's latest call
    cpc,        \* SpecRace: caller -> where its _cache_get_or_set call is
    cres,       \* SpecRace: caller -> the outcome of its last completed call, and
                \* where the other callers were when it completed
    cstored,    \* SpecRace history: the values cache_set has stored under the key
    clast,      \* SpecRace history: <<>> or <<the value of the latest cache_set>>
    npc,        \* SpecNorm: what has been done with the value ("in", "safe", ...)
    nin,        \* SpecNorm: x, the value handed to _json_safe
    nout,       \* SpecNorm: _json_safe(x)
    nagain,     \* SpecNorm: _json_safe(_json_safe(x))
    ntext,      \* SpecNorm: the JSON text cache_set writes for _json_safe(x)
    nback,      \* SpecNorm: what cache_get parses from that text
    psess,      \* SpecPage: session -> the user logged in (st.session_state)
    ppc,        \* SpecPage: session -> where its run of page_analysis is
    ploc,       \* SpecPage: session -> the locals of consume_search in that run
    pres,       \* SpecPage: session -> how its last completed run ended
    pfetches,   \* SpecPage history: user -> UTC day and number of the runs that
                \* fetched data on it, for the day of the user's latest fetch
                \* (day, n), and UTC day and number of the consume_search
                \* calls that returned allowed = True on it (okday, ok)
    pstep,      \* SpecPage history: the latest step taken, <<session, step>>
    gpc,        \* SpecSec: thread -> where its sec_client.get_json call is
    gwake,      \* SpecSec: thread -> when its time.sleep(wait) ends
    ghist,      \* SpecSec history: when the latest request was issued, and whether
                \* all requests so far were _MIN_INTERVAL_SEC apart
    fres,       \* SpecFault: the last cache_store call on a failing store: what
                \* failed underneath it and what the caller got
    hpc,        \* SpecPerf: what has been done with the series ("in", "loaded", "cached")
    hcloses,    \* SpecPerf: the Close column of get_history_daily, one price a day
    hres,       \* SpecPerf: what get_perf_metrics returned
    dorigin,    \* SpecDerived history: key -> when the upstream data behind the
                \* row under the key was fetched
    dres,       \* SpecDerived: what the latest call returned, and how long ago
                \* the upstream data behind it was fetched
    kres        \* SpecTicker: the latest ticker_to_cik10 call: its argument, its
                \* outcome, the requests it issued, the maps it downloaded, its time

storeVars == <<clock, store>>
storeOpVars == <<sop, lastSet>>
memoVars == <<mpc, mttl, mcur, mres, mstored>>

yfVars == <<ypc, ymax, yattempt, ylast, yres, yhist>>
throttleVars == <<wall, lastReqTs>>
threadVars == <<reqLock, tpc, tloc, thist>>

httpVars == <<client, rcfg, rpc, rattempt, rres, rhist, rtrack, secWall, secLastCallTs, sres>>

quotaVars == <<qlimit, qres, qcalls>>

raceVars == <<cpc, cres, cstored, clast>>

normVars == <<npc, nin, nout, nagain, ntext, nback>>

pageVars == <<psess, ppc, ploc, pres, pfetches, pstep>>

secThreadVars == <<gpc, gwake, ghist>>

\* the variables of the specifications added after SpecNorm
perfVars == <<hpc, hcloses, hres>>

lateVars == <<dorigin, dres, kres>>

extVars == <<pageVars, secThreadVars, fres, perfVars, lateVars>>

vars == <<storeVars, storeOpVars, memoVars, throttleVars, yfVars, threadVars, httpVars,
          quotaVars, raceVars, normVars, extVars>>

\* what the actions of each specification leave alone
outsideStore == <<memoVars, throttleVars, yfVars, threadVars, httpVars, quotaVars, raceVars, normVars, extVars>>
outsideMemo == <<storeOpVars, throttleVars, yfVars, threadVars, httpVars, quotaVars, raceVars, normVars, extVars>>
outsideYF == <<storeVars, storeOpVars, memoVars, threadVars, httpVars, quotaVars, raceVars, normVars, extVars>>
outsideThrottle == <<storeVars, storeOpVars, memoVars, yfVars, httpVars, quotaVars, raceVars, normVars, extVars>>
outsideRapid == <<storeOpVars, memoVars, throttleVars, yfVars, threadVars, quotaVars, raceVars, normVars,
                  client, secWall, secLastCallTs, sres, extVars>>
outsideSec == <<storeVars, storeOpVars, memoVars, throttleVars, yfVars, threadVars, quotaVars, raceVars, normVars,
                client, rcfg, rpc, rattempt, rres, rhist, rtrack, extVars>>
outsideQuota == <<storeOpVars, memoVars, throttleVars, yfVars, threadVars, httpVars,
                  raceVars, normVars, extVars>>
outsideRace == <<storeOpVars, memoVars, throttleVars, yfVars, threadVars, httpVars,
                 quotaVars, normVars, extVars>>
outsideNorm == <<storeVars, storeOpVars, memoVars, throttleVars, yfVars, threadVars,
                 httpVars, quotaVars, raceVars, extVars>>
outsidePage == <<storeOpVars, memoVars, throttleVars, yfVars, threadVars, httpVars,
                 quotaVars, raceVars, normVars, secThreadVars, fres, perfVars, lateVars>>
outsideSecThreads == <<storeVars, storeOpVars, memoVars, throttleVars, yfVars, threadVars,
                       quotaVars, raceVars, normVars, pageVars, fres, perfVars, lateVars,
                       client, rcfg, rpc, rattempt, rres, rhist, rtrack, sres>>
outsideFault == <<storeOpVars, memoVars, throttleVars, yfVars, threadVars, httpVars,
                  quotaVars, raceVars, normVars, pageVars, secThreadVars, perfVars, lateVars>>
outsidePerf == <<storeVars, storeOpVars, memoVars, throttleVars, yfVars, threadVars, httpVars,
                 quotaVars, raceVars, normVars, pageVars, secThreadVars, fres, lateVars>>
outsideDerived == <<storeOpVars, memoVars, throttleVars, yfVars, threadVars, httpVars,
                    quotaVars, raceVars, normVars, pageVars, secThreadVars, fres, perfVars,
                    kres>>
outsideTicker == <<storeOpVars, memoVars, throttleVars, yfVars, threadVars, httpVars,
                   quotaVars, raceVars, normVars, pageVars, secThreadVars, fres, perfVars,
                   dorigin, dres>>

----------------------------------------------------------------------------
(* Bounds of the model *)

TicksPerSec == 2
MaxClock == 7
MaxTTL == 2
Grace == 2
MaxAttempts == 7
Horizon == 22
SecHorizon == 3
QuotaMaxLimit == 3
QuotaStepHours == 12
QuotaSteps == 3
NormMaxLen == 2

----------------------------------------------------------------------------
(* Python values and their JSON text *)

PyNone == [t |-> "none"]
PyInt(n) == [t |-> "int", n |-> n]
PyStr(s) == [t |-> "str", s |-> s]

PyBool(b) == [t |-> "bool", b |-> b]
\* a float (numpy.float64 is a subclass of float and counts as one); f is its repr
PyFloat(f) == [t |-> "float", f |-> f]
PyDate(d) == [t |-> "date", iso |-> d]
\* list, tuple and set: items in iteration order
PyList(items) == [t |-> "list", items |-> items]
PyTuple(items) == [t |-> "tuple", items |-> items]
PySet(items) == [t |-> "set", items |-> items]
\* dict: its <<key, value>> pairs in insertion order, keys distinct
PyDict(items) == [t |-> "dict", items |-> items]
\* numpy scalars that are no subclass of int, float or bool
NpInt(n) == [t |-> "np.integer", n |-> n]
NpFloat(f) == [t |-> "np.floating", f |-> f]
NpBool(b) == [t |-> "np.bool_", b |-> b]
\* an object with an items attribute (yfinance FastInfo): dict(x) gives items, or raises
DictLike(items, raises, s) == [t |-> "dictlike", items |-> items, raises |-> raises, str |-> s]
\* any other object, s is what str(x) returns
PyObj(s) == [t |-> "object", str |-> s]

\* d[k] = v on a dict's pairs: a key already there keeps its place
DictPut(d, k, v) ==
    IF \E i \in 1..Len(d) : d[i][1] = k
    THEN [i \in 1..Len(d) |-> IF d[i][1] = k THEN <<k, v>> ELSE d[i]]
    ELSE Append(d, <<k, v>>)

\* the dict a comprehension or json.loads builds from pairs, one after the other
RECURSIVE DictOf(_)
DictOf(pairs) ==
    IF pairs = <<>> THEN <<>>
    ELSE DictPut(DictOf(SubSeq(pairs, 1, Len(pairs) - 1)),
                 pairs[Len(pairs)][1], pairs[Len(pairs)][2])

\* the key json.dumps writes for a dict key: str as it is, int, float, bool and
\* None converted, anything else is a TypeError
JsonKey(k) ==
    CASE k.t = "str"   -> k.s
      [] k.t = "int"   -> ToString(k.n)
      [] k.t = "float" -> k.f
      [] k.t = "bool"  -> IF k.b THEN "true" ELSE "false"
      [] k.t = "none"  -> "null"
      [] OTHER         -> "TypeError"

\* json.dumps(value, ensure_ascii=False): the JSON text, as its syntax tree
RECURSIVE JsonDumps(_)
JsonDumps(v) ==
    CASE v.t = "none"  -> [j |-> "null"]
      [] v.t = "int"   -> [j |-> "number", n |-> v.n]
      [] v.t = "str"   -> [j |-> "string", s |-> v.s]
      [] v.t = "bool"  -> [j |-> IF v.b THEN "true" ELSE "false"]
      [] v.t = "float" -> [j |-> "real", f |-> v.f]
      [] v.t \in {"list", "tuple"} ->
            [j |-> "array", items |-> [i \in 1..Len(v.items) |-> JsonDumps(v.items[i])]]
      [] v.t = "dict" ->
            [j |-> "object",
             members |-> [i \in 1..Len(v.items) |->
                             <<JsonKey(v.items[i][1]), JsonDumps(v.items[i][2])>>]]
      [] OTHER -> [j |-> "TypeError"]

\* json.loads(row["value_json"])
RECURSIVE JsonLoads(_)
JsonLoads(txt) ==
    CASE txt.j = "null"   -> PyNone
      [] txt.j = "number" -> PyInt(txt.n)
      [] txt.j = "string" -> PyStr(txt.s)
      [] txt.j = "true"   -> PyBool(TRUE)
      [] txt.j = "false"  -> PyBool(FALSE)
      [] txt.j = "real"   -> PyFloat(txt.f)
      [] txt.j = "array"  ->
            PyList([i \in 1..Len(txt.items) |-> JsonLoads(txt.items[i])])
      [] txt.j = "object" ->
            PyDict(DictOf([i \in 1..Len(txt.members) |->
                              <<PyStr(txt.members[i][1]), JsonLoads(txt.members[i][2])>>]))
      [] OTHER -> PyNone

\* int(time.time())
IntTime(c) == c \div TicksPerSec

----------------------------------------------------------------------------
(* cache_store.py as functions on the table *)

Row(v, now, ttl) ==
    [value_json |-> JsonDumps(v), created_at |-> IntTime(now), ttl_seconds |-> ttl]

\* (mutant of Expired: the age test written >= instead of >)
ExpiredAtTtl(row, now) ==
    \E ttl \in row.ttl_seconds : (IntTime(now) - row.created_at) >= ttl

\* cache_get, lines 42-44: the row's ttl is not NULL and its age exceeds it
Expired(row, now) ==
    \E ttl \in row.ttl_seconds : (IntTime(now) - row.created_at) > ttl

\* cache_get: the value returned (None for a missing or an expired row)
CacheGetResult(st, k, now) ==
    IF k \notin DOMAIN st THEN PyNone
    ELSE IF Expired(st[k], now) THEN PyNone
    ELSE JsonLoads(st[k].value_json)

\* (mutant of CacheDeleteStore: DELETE FROM kv_cache, without the WHERE)
CacheDeleteStoreAll(st, k) == [x \in {} |-> 0]

\* cache_delete: DELETE FROM kv_cache WHERE key = ?
CacheDeleteStore(st, k) == [x \in DOMAIN st \ {k} |-> st[x]]

\* (mutant of CacheGetStore: an expired row is left in the table)
CacheGetStoreKeep(st, k, now) == st

\* cache_get: the table afterwards (an expired row is deleted)
CacheGetStore(st, k, now) ==
    IF k \in DOMAIN st /\ Expired(st[k], now) THEN CacheDeleteStore(st, k) ELSE st

\* (mutant of CacheSetStore: INSERT OR IGNORE, the first writer wins)
CacheSetStoreIgnore(st, k, v, ttl, now) ==
    [x \in DOMAIN st \cup {k} |-> IF x \in DOMAIN st THEN st[x] ELSE Row(v, now, ttl)]

\* cache_set: INSERT ... ON CONFLICT(key) DO UPDATE
CacheSetStore(st, k, v, ttl, now) ==
    [x \in DOMAIN st \cup {k} |-> IF x = k THEN Row(v, now, ttl) ELSE st[x]]

\* SQLite folds ASCII case in LIKE
FoldCase(c) ==
    CASE c = "Q" -> "q"
      [] c = "H" -> "h"
      [] OTHER -> c

\* SQLite's  key LIKE pattern : "%" any run of tokens, "_" any one token
RECURSIVE LikeMatch(_, _)
LikeMatch(pat, s) ==
    IF pat = <<>> THEN s = <<>>
    ELSE IF Head(pat) = "%"
         THEN \E i \in 0..Len(s) : LikeMatch(Tail(pat), SubSeq(s, i + 1, Len(s)))
         ELSE /\ s # <<>>
              /\ (Head(pat) = "_" \/ FoldCase(Head(pat)) = FoldCase(Head(s)))
              /\ LikeMatch(Tail(pat), Tail(s))

\* (mutant of ClearDeletes: without a prefix nothing is deleted)
ClearDeletesNothing(prefix, k) ==
    IF \E p \in prefix : p # <<>>
    THEN \E p \in prefix : LikeMatch(Append(p, "%"), k)
    ELSE FALSE

\* cache_clear(prefix), the rows deleted: prefix is {} (None) or {p};
\* "if prefix:" is false for None and for "", and then every row goes
ClearDeletes(prefix, k) ==
    IF \E p \in prefix : p # <<>>
    THEN \E p \in prefix : LikeMatch(Append(p, "%"), k)
    ELSE TRUE

CacheClearStore(st, prefix) ==
    [x \in {k \in DOMAIN st : ~ClearDeletes(prefix, k)} |-> st[x]]

EmptyStore == [x \in {} |-> 0]

----------------------------------------------------------------------------
(* finance_data.py: _json_safe and _cache_get_or_set *)

\* str(k) for the keys of a dict
KeyStr(k) ==
    CASE k.t = "str"   -> k.s
      [] k.t = "int"   -> ToString(k.n)
      [] k.t = "float" -> k.f
      [] k.t = "bool"  -> IF k.b THEN "True" ELSE "False"
      [] k.t = "none"  -> "None"
      [] k.t = "date"  -> k.iso
      [] OTHER         -> "?"

\* (mutant of SafeKey: the keys are left as they are)
SafeKeyRaw(k) == k

\* (mutant of SafeKey: repr(k) instead of str(k))
SafeKeyRepr(k) == IF k.t = "str" THEN PyStr("'" \o k.s \o "'") ELSE PyStr(KeyStr(k))

\* lines 33 and 53: str(k)
SafeKey(k) == PyStr(KeyStr(k))

RECURSIVE JsonSafe(_)

\* (mutant of SafeItem: list(x), the elements are not normalized)
SafeItemRaw(v) == v

\* line 35: _json_safe(v) for v in x
SafeItem(v) == JsonSafe(v)

\* lines 33 and 53: {str(k): _json_safe(v) for k, v in items}
SafeDict(items) ==
    PyDict(DictOf([i \in 1..Len(items) |-> <<SafeKey(items[i][1]), JsonSafe(items[i][2])>>]))

\* _json_safe
JsonSafe(x) ==
    CASE x.t \in {"none", "str", "int", "float", "bool"} -> x
      [] x.t = "date" -> PyStr(x.iso)
      [] x.t = "dict" -> SafeDict(x.items)
      [] x.t \in {"list", "tuple", "set"} ->
            PyList([i \in 1..Len(x.items) |-> SafeItem(x.items[i])])
      [] x.t = "np.integer"  -> PyInt(x.n)
      [] x.t = "np.floating" -> PyFloat(x.f)
      [] x.t = "np.bool_"    -> PyBool(x.b)
      [] x.t = "dictlike" -> IF x.raises THEN PyStr(x.str) ELSE SafeDict(x.items)
      [] OTHER -> PyStr(x.str)

MemoKey == <<"yf:quote:", "AAPL">>

NoCall == [readAt |-> 0, before |-> EmptyStore, stored |-> <<>>]
NoResult == [kind |-> "none", val |-> PyNone, err |-> "", stale |-> FALSE, loads |-> 0,
             readAt |-> 0, before |-> EmptyStore, after |-> EmptyStore, stored |-> <<>>]

\* the memo variables of a specification that makes no _cache_get_or_set call
MemoIdle ==
    /\ mpc = "idle"
    /\ mttl = 0
    /\ mcur = NoCall
    /\ mres = NoResult
    /\ mstored = <<>>

----------------------------------------------------------------------------
(* yf_client.py: the throttle and the retry schedule of yf_call.           *)
(* Durations are in tenths of a second.                                    *)

MIN_SECONDS_BETWEEN_REQUESTS == 9
JitterMax == 6

\* the exceptions a thunk raises: class name, the searched substrings that
\* str(exc).lower() contains, and what the failure is
ErrRateLimitClass ==
    [cls |-> "YFRateLimitError", msg |-> "Too Many Requests. Rate limited.",
     has |-> {"too many requests"}, kind |-> "ratelimit"]
ErrHttp429 ==
    [cls |-> "HTTPError", msg |-> "429 Client Error", has |-> {"429"}, kind |-> "ratelimit"]
ErrHttp500 ==
    [cls |-> "HTTPError", msg |-> "500 Server Error", has |-> {}, kind |-> "transient"]
ErrHttp404 ==
    [cls |-> "HTTPError", msg |-> "404 Client Error", has |-> {}, kind |-> "nontransient"]
ErrMalformed ==
    [cls |-> "JSONDecodeError", msg |-> "Expecting value", has |-> {}, kind |-> "nontransient"]
ThunkErrors == {ErrRateLimitClass, ErrHttp429, ErrHttp500, ErrHttp404, ErrMalformed}
ThunkValues == {PyStr("fast_info"), PyStr("history")}

\* _is_rate_limit_error
IsRateLimitError(e) ==
    \/ e.cls = "YFRateLimitError"
    \/ "rate limit" \in e.has
    \/ "too many requests" \in e.has
    \/ "429" \in e.has

Min(a, b) == IF a <= b THEN a ELSE b

\* (mutant of BackoffBase: the steep schedule without its cap)
BackoffBaseUncapped(e, attempt) ==
    IF IsRateLimitError(e) THEN 50 * (2 ^ (attempt - 1))
    ELSE Min(10 * (2 ^ (attempt - 1)), 200)

\* lines 83-87: base = min(5 * 2**(attempt-1), 60) or min(2**(attempt-1), 20)
BackoffBase(e, attempt) ==
    IF IsRateLimitError(e) THEN Min(50 * (2 ^ (attempt - 1)), 600)
    ELSE Min(10 * (2 ^ (attempt - 1)), 200)

\* random.uniform(0, 0.6), sampled at its ends and its middle
Jitters == {0, JitterMax \div 2, JitterMax}

\* lines 69-71: wait = MIN_SECONDS_BETWEEN_REQUESTS - (now - _LAST_REQ_TS)
ThrottleWait(now, lastTs) == MIN_SECONDS_BETWEEN_REQUESTS - (now - lastTs)

\* (mutant of ExhaustedNow: one attempt too few)
ExhaustedEarly(attempt, max) == attempt >= max - 1

\* line 79: if attempt == max_attempts: break
ExhaustedNow(attempt, max) == attempt = max

\* line 92: raise YFError(str(last) if last else "yfinance error")
YFErrorOf(last) ==
    [exc |-> "YFError", msg |-> IF last # <<>> THEN last[1].msg ELSE "yfinance error"]

NoYFResult == [kind |-> "none", val |-> PyNone, exc |-> "", msg |-> ""]
\* the schedule as documented: 5, 10, 20, 40, 60, 60, ... s after a rate-limit
\* failure of attempt k, and 1, 2, 4, 8, 16, 20, 20, ... s after any other
ScheduleBase(k, rateLimited) ==
    IF rateLimited THEN Min(50 * (2 ^ (k - 1)), 600) ELSE Min(10 * (2 ^ (k - 1)), 200)

\* what an invocation of the thunk did, when it returned a value
ThunkOk == [cls |-> "", msg |-> "", has |-> {}, kind |-> "value"]

NoYFHist == [calls |-> 0, out |-> <<>>, sleeps |-> 0, delay |-> 0, failedAt |-> 0,
             failedRL |-> FALSE, sumBase |-> 0, total |-> 0, allRateLimit |-> TRUE,
             okAt |-> 0, okVal |-> PyNone]

Threads == {"t1", "t2"}

NoThreadHist == [stamps |-> 0, stampsApart |-> TRUE, starts |-> 0, lastStart |-> 0,
                 startsApart |-> TRUE, startedUnstamped |-> FALSE]

\* the thread variables of a specification that runs no concurrent yf_call
ThreadsIdle ==
    /\ reqLock = {}
    /\ tpc = [t \in Threads |-> "off"]
    /\ tloc = [t \in Threads |-> [attempt |-> 0, max |-> 0, wake |-> 0]]
    /\ thist = NoThreadHist

\* no sequential yf_call in progress
YFOff ==
    /\ ypc = "off"
    /\ ymax = 0
    /\ yattempt = 0
    /\ ylast = <<>>
    /\ yres = NoYFResult
    /\ yhist = NoYFHist

\* the yf_call variables of a specification that makes no yf_call
YFIdle ==
    /\ wall = 0
    /\ lastReqTs = 0
    /\ YFOff
    /\ ThreadsIdle

----------------------------------------------------------------------------
(* rapidapi_client.py and sec_client.py *)

RapidMaxAttempts == 4
RapidKey == <<"rapid:", "quote:", "AAPL">>
\* line 117: err_key = cache_key + ":err"
RapidErrKey == Append(RapidKey, ":err")

\* what requests.get answers: a status and whether the body parses as JSON
Responses ==
    {[status |-> 200, json |-> TRUE], [status |-> 200, json |-> FALSE],
     [status |-> 404, json |-> TRUE], [status |-> 429, json |-> FALSE],
     [status |-> 500, json |-> FALSE], [status |-> 501, json |-> FALSE],
     [status |-> 503, json |-> FALSE]}
\* requests.get raises instead of answering (requests.exceptions.ConnectionError)
NetworkFailure == [status |-> 0, json |-> FALSE]
ResponseData == PyStr("body")

\* (mutant of RapidRetryStatus: every 5xx is retried)
RapidRetryAll5xx(status) == status = 429 \/ status >= 500

\* line 73: if r.status_code in (429, 500, 502, 503, 504)
RapidRetryStatus(status) == status \in {429, 500, 502, 503, 504}

\* lines 83-98: what rapidapi_get does with the last response
RapidOutcome(resp) ==
    IF resp.status >= 400
    THEN [kind |-> "raise", val |-> PyNone, exc |-> "RapidAPIError", msg |-> "HTTP error"]
    ELSE IF ~resp.json
    THEN [kind |-> "raise", val |-> PyNone, exc |-> "RapidAPIError", msg |-> "not JSON"]
    ELSE [kind |-> "return", val |-> ResponseData, exc |-> "", msg |-> ""]

\* line 68: requests.get raises: nothing in rapidapi_get or rapidapi_cached_get
\* catches it ("except RapidAPIError" does not match)
RapidNetworkOutcome ==
    [kind |-> "raise", val |-> PyNone, exc |-> "ConnectionError", msg |-> "connection failed"]

\* (mutant of RapidRecord: a failure leaves no error marker)
RapidRecordNoMarker(st, cfg, out, now) ==
    IF out.kind = "return"
    THEN CacheSetStore(st, RapidKey, out.val, {cfg.ttl}, now)
    ELSE st

\* lines 123-129: the result is cached, a RapidAPIError leaves an error marker
RapidRecord(st, cfg, out, now) ==
    IF out.kind = "return"
    THEN CacheSetStore(st, RapidKey, out.val, {cfg.ttl}, now)
    ELSE IF out.exc = "RapidAPIError"
    THEN CacheSetStore(st, RapidErrKey, PyStr(out.msg), {cfg.errTtl}, now)
    ELSE st

\* Python truth of a cached value: "if recent_err:"
Truthy(v) ==
    CASE v.t = "none" -> FALSE
      [] v.t = "int"  -> v.n # 0
      [] v.t = "str"  -> v.s # ""
      [] OTHER -> TRUE

\* sec_client.get_json, lines 49-55: a status >= 400, a body that is not JSON
\* and an exception of requests.get all end in SecClientError
SecOutcome(resp) ==
    IF resp = NetworkFailure \/ resp.status >= 400 \/ ~resp.json
    THEN [kind |-> "raise", val |-> PyNone, exc |-> "SecClientError", msg |-> "SEC request failed"]
    ELSE [kind |-> "return", val |-> ResponseData, exc |-> "", msg |-> ""]

\* sec_client._throttle with _MIN_INTERVAL_SEC as the unit of time: the time
\* at which it returns
SecThrottleEnd(now, lastTs) == IF 1 - (now - lastTs) > 0 THEN now + (1 - (now - lastTs)) ELSE now

NoHttpResult == [kind |-> "none", val |-> PyNone, exc |-> "", msg |-> ""]
NoRapidHist == [requests |-> 0, last |-> <<>>, sleeps |-> 0, statuses |-> <<>>, waits |-> <<>>]
NoRapidTrack == [failed |-> <<>>, call |-> <<>>]

\* the variables of a specification that calls neither rapidapi nor the SEC
HttpIdle ==
    /\ client = "none"
    /\ rcfg = [hasKey |-> FALSE, ttl |-> 0, errTtl |-> 0]
    /\ rpc = "idle"
    /\ rattempt = 0
    /\ rres = NoHttpResult
    /\ rhist = NoRapidHist
    /\ rtrack = NoRapidTrack
    /\ secWall = 0
    /\ secLastCallTs = 0
    /\ sres = NoHttpResult

----------------------------------------------------------------------------
(* usage_limits.py *)

DefaultCost == 1
SecondsPerDay == 24 * 3600
\* line 39: ttl_seconds=26 * 3600
QuotaTtl == 26 * 3600

\* _today_key: the UTC date, as the number of the day since 1970-01-01
TodayKey(now) == ToString(IntTime(now) \div SecondsPerDay)

\* lines 14 and 27: k = f"usage:searches:{email}:{_today_key()}"
UsageKey(email, now) == <<"usage:searches:", email, ":", TodayKey(now)>>

\* lines 15-19 and 28-32: used = cache_get(k) or 0; used = int(used), 0 if that raises
UsedOf(v) == IF Truthy(v) /\ v.t = "int" THEN v.n ELSE 0

Max(a, b) == IF a >= b THEN a ELSE b

\* (mutant of OverLimit: the limit itself is already refused)
OverLimitAtLimit(used, cost, daily_limit) == used + cost >= daily_limit

\* line 34: if used + cost > daily_limit
OverLimit(used, cost, daily_limit) == used + cost > daily_limit

\* consume_search: (allowed, remaining_after)
ConsumeResult(st, email, daily_limit, cost, now) ==
    LET used == UsedOf(CacheGetResult(st, UsageKey(email, now), now))
    IN  IF OverLimit(used, cost, daily_limit)
        THEN [allowed |-> FALSE, remaining |-> Max(daily_limit - used, 0)]
        ELSE [allowed |-> TRUE, remaining |-> Max(daily_limit - (used + cost), 0)]

\* consume_search: the table afterwards
ConsumeStore(st, email, daily_limit, cost, now) ==
    LET k == UsageKey(email, now)
        used == UsedOf(CacheGetResult(st, k, now))
        st1 == CacheGetStore(st, k, now)
    IN  IF OverLimit(used, cost, daily_limit) THEN st1
        ELSE CacheSetStore(st1, k, PyInt(used + cost), {QuotaTtl}, now)

\* remaining_searches
RemainingResult(st, email, daily_limit, now) ==
    Max(daily_limit - UsedOf(CacheGetResult(st, UsageKey(email, now), now)), 0)

Emails == {"ana@x.cl", "bob@x.cl"}
NoQuotaResult == [op |-> "none", email |-> "", allowed |-> FALSE, remaining |-> 0,
                  day |-> "", unchanged |-> TRUE]
NoQuotaCalls == [e \in Emails |-> [day |-> "", n |-> 0]]

\* the variables of a specification that does not use the quota
QuotaIdle ==
    /\ qlimit = 0
    /\ qres = NoQuotaResult
    /\ qcalls = NoQuotaCalls

\* the variables of a specification that normalizes no value
NormIdle ==
    /\ npc = "off"
    /\ nin = PyNone /\ nout = PyNone /\ nagain = PyNone
    /\ ntext = JsonDumps(PyNone) /\ nback = PyNone

----------------------------------------------------------------------------
(* pages/analysis.py, with auth.py for what a login leaves in the session  *)

\* line 65: DAILY_LIMIT = 3
DAILY_LIMIT == 3

\* data/users.json: the key of each user as the pieces of the string typed at
\* the login form, and the role; admin_users.py lines 34-39 accept any
\* non-empty key
Users ==
    {[login |-> <<"ana", "@", "x.cl">>, role |-> "user"],
     [login |-> <<"juan">>, role |-> "user"],
     [login |-> <<"root", "@", "x.cl">>, role |-> "admin"]}

NoUser == [login |-> <<>>, role |-> ""]

RECURSIVE Join(_)
Join(pieces) == IF pieces = <<>> THEN "" ELSE Head(pieces) \o Join(Tail(pieces))

\* _get_user_email: auth.py line 110 sets auth_email, the only candidate key
\* the login sets; a value without "@" is passed over
GetUserEmail(user) ==
    IF \E i \in 1..Len(user.login) : user.login[i] = "@" THEN Join(user.login) ELSE ""

\* _is_admin: auth.py line 111 sets auth_role
IsAdmin(user) == user.role = "admin"

\* the names cache_store.py defines
CacheStoreNames == {"_ensure_cache_table", "cache_get", "cache_set", "cache_delete", "cache_clear"}

\* line 5: from src.services.cache_store import cache_clear_all
ClearAllBound == "cache_clear_all" \in CacheStoreNames

\* finance_data.py get_price_data: ttl = 60 * 5
QuoteTtl == 60 * 5
QuoteValue == PyStr("quote")

\* lines 159-160: get_static_data(ticker) begins with get_price_data(ticker),
\* that is _cache_get_or_set("yf:quote:AAPL", 300, loader), the loader succeeding
FetchStore(st, now) ==
    IF CacheGetResult(st, MemoKey, now) # PyNone THEN CacheGetStore(st, MemoKey, now)
    ELSE CacheSetStore(CacheGetStore(st, MemoKey, now), MemoKey, JsonSafe(QuoteValue),
                       {QuoteTtl}, now)

Sessions == {"s1", "s2"}
NoLocals == [email |-> "", key |-> <<>>, used |-> 0, allowed |-> FALSE]
NoRun == [kind |-> "none", exc |-> "", allowed |-> FALSE, gated |-> FALSE]
NoFetches == [u \in Users |-> [day |-> "", n |-> 0, okday |-> "", ok |-> 0]]

\* the variables of a specification in which no page is run
PageIdle ==
    /\ psess = [s \in Sessions |-> NoUser]
    /\ ppc = [s \in Sessions |-> "off"]
    /\ ploc = [s \in Sessions |-> NoLocals]
    /\ pres = [s \in Sessions |-> NoRun]
    /\ pfetches = NoFetches
    /\ pstep = <<>>

NoSecHist == [requests |-> 0, last |-> 0, apart |-> TRUE]

\* the variables of a specification without concurrent sec_client.get_json calls
SecThreadsIdle ==
    /\ gpc = [t \in Threads |-> "off"]
    /\ gwake = [t \in Threads |-> 0]
    /\ ghist = NoSecHist

NoFault == [op |-> "none", key |-> <<>>, fault |-> "none", kind |-> "none",
            exc |-> "", val |-> PyNone]

\* the variables of a specification that computes no metrics
PerfIdle == hpc = "off" /\ hcloses = <<>> /\ hres = PyNone

NoOrigin == [x \in {} |-> 0]
NoDerived == [fn |-> "none", val |-> PyNone, age |-> 0]
DerivedIdle == dorigin = NoOrigin /\ dres = NoDerived
NoTickerCall == [kind |-> "none", ticker |-> PyNone, ret |-> PyNone, requests |-> 0,
                 forced |-> 0, cached |-> PyNone, maps |-> <<>>, at |-> 0]
TickerIdle == kres = NoTickerCall
LateIdle == DerivedIdle /\ TickerIdle

ExtIdle == PageIdle /\ SecThreadsIdle /\ fres = NoFault /\ PerfIdle /\ LateIdle

----------------------------------------------------------------------------
(* concurrent callers of _cache_get_or_set *)

Callers == {"c1", "c2"}
NoRaceResult == [kind |-> "none", val |-> PyNone, src |-> "", wrote |-> PyNone, peers |-> {}]

\* the variables of a specification without concurrent callers
RaceIdle ==
    /\ cpc = [c \in Callers |-> "off"]
    /\ cres = [c \in Callers |-> NoRaceResult]
    /\ cstored = {}
    /\ clast = <<>>

----------------------------------------------------------------------------
(* SpecStore: one handler calling the cache store, operation by operation *)

StoreKeys == {<<"q", ":", "a">>, <<"h", ":", "a">>}
StoreValues == {PyNone, PyStr("a")}
StoreTTLs == {{}} \cup {{n} : n \in 0..MaxTTL}
StorePrefixes == {{}, {<<>>}, {<<"q", ":">>}, {<<"H">>}}

NoSet == [k \in StoreKeys |-> <<>>]
NoOp == [op |-> "none", key |-> <<>>, ret |-> PyNone, at |-> 0, found |-> FALSE]

StoreOpIdle == sop = NoOp /\ lastSet = NoSet

StoreInit ==
    /\ clock = 0
    /\ store = EmptyStore
    /\ StoreOpIdle
    /\ MemoIdle
    /\ YFIdle
    /\ HttpIdle
    /\ QuotaIdle
    /\ RaceIdle
    /\ NormIdle
    /\ ExtIdle

Tick ==
    /\ clock < MaxClock
    /\ clock' = clock + 1
    /\ UNCHANGED <<store, storeOpVars, outsideStore>>

CacheSet(k, v, ttl) ==
    /\ store' = CacheSetStore(store, k, v, ttl, clock)
    /\ sop' = [op |-> "set", key |-> k, at |-> clock, ret |-> PyNone,
                found |-> (k \in DOMAIN store /\ store[k] # Row(v, clock, ttl))]
    /\ lastSet' = [lastSet EXCEPT ![k] = <<[t0 |-> clock, v |-> v, ttl |-> ttl]>>]
    /\ UNCHANGED <<clock, outsideStore>>

CacheGet(k) ==
    /\ store' = CacheGetStore(store, k, clock)
    /\ sop' = [op |-> "get", key |-> k, at |-> clock, ret |-> CacheGetResult(store, k, clock),
                found |-> k \in DOMAIN store]
    /\ UNCHANGED <<clock, lastSet, outsideStore>>

CacheDelete(k) ==
    /\ store' = CacheDeleteStore(store, k)
    /\ sop' = [op |-> "delete", key |-> k, at |-> clock, ret |-> PyNone, found |-> FALSE]
    /\ lastSet' = [lastSet EXCEPT ![k] = <<>>]
    /\ UNCHANGED <<clock, outsideStore>>

CacheClear(prefix) ==
    /\ store' = CacheClearStore(store, prefix)
    /\ sop' = [op |-> "clear", key |-> IF prefix = {} THEN <<>> ELSE CHOOSE q \in prefix : TRUE,
                at |-> clock, ret |-> PyNone, found |-> store # EmptyStore,
                prefix |-> prefix]
    /\ lastSet' = [k \in StoreKeys |-> IF ClearDeletes(prefix, k) THEN <<>> ELSE lastSet[k]]
    /\ UNCHANGED <<clock, outsideStore>>

StoreNext ==
    \/ Tick
    \/ \E k \in StoreKeys, v \in StoreValues, ttl \in StoreTTLs : CacheSet(k, v, ttl)
    \/ \E k \in StoreKeys : CacheGet(k)
    \/ \E k \in StoreKeys : CacheDelete(k)
    \/ \E p \in StorePrefixes : CacheClear(p)

SpecStore == StoreInit /\ [][StoreNext]_vars

\* the cache_set a completed cache_get read back, if it is still the latest
\* operation that wrote, deleted or cleared the key
GetAfterSet == sop.op = "get" /\ lastSet[sop.key] # <<>>
SetRead == lastSet[sop.key][1]

(* C2 (as stated): after cache_set(key, v, ttl) at t0 and no later write,  *)
(* delete or clear of the key, cache_get(key) at time t returns v when     *)
(* t - t0 <= ttl and absent when t - t0 > ttl, in exact (sub-second) time; *)
(* with a null ttl it returns v at every later time.                       *)
C2_TtlExactTime ==
    GetAfterSet =>
        IF SetRead.ttl = {} THEN sop.ret = SetRead.v
        ELSE \A ttl \in SetRead.ttl :
                IF sop.at - SetRead.t0 <= ttl * TicksPerSec
                THEN sop.ret = SetRead.v
                ELSE sop.ret = PyNone

(* C2 (amended): the same with both times truncated to whole seconds, as   *)
(* int(time.time()) does: v is returned when int(t) - int(t0) <= ttl and   *)
(* absent when int(t) - int(t0) > ttl; null ttl: v at every later time.    *)
C2_TtlWholeSeconds ==
    GetAfterSet =>
        IF SetRead.ttl = {} THEN sop.ret = SetRead.v
        ELSE \A ttl \in SetRead.ttl :
                IF IntTime(sop.at) - IntTime(SetRead.t0) <= ttl
                THEN sop.ret = SetRead.v
                ELSE sop.ret = PyNone

\* a read more than ttl (but less than ttl + 1 s) after the write still returns v
C2_Witness ==
    /\ GetAfterSet
    /\ SetRead.v # PyNone
    /\ sop.ret = SetRead.v
    /\ \E ttl \in SetRead.ttl : sop.at - SetRead.t0 > ttl * TicksPerSec

\* a completed cache_get found a row under its key (the row of the latest
\* cache_set) whose age exceeded its ttl
GetSawExpired ==
    /\ GetAfterSet
    /\ sop.found
    /\ \E ttl \in SetRead.ttl : IntTime(sop.at) - IntTime(SetRead.t0) > ttl

(* C11: whenever cache_get(key) finds a row whose age (the whole seconds of *)
(* the clock minus created_at) exceeds its ttl, it returns None and, no     *)
(* other operation having touched the key, the table holds no row for the   *)
(* key when the call has completed.                                         *)
C11_LazyExpiryDeletion ==
    GetSawExpired => (sop.ret = PyNone /\ sop.key \notin DOMAIN store)

\* a cache_get found an expired row holding a value, returned None and the row is gone
C11_Witness ==
    /\ GetSawExpired
    /\ SetRead.v # PyNone
    /\ sop.ret = PyNone
    /\ sop.key \notin DOMAIN store

\* the rows under every key but k are the same in both tables
SameButFor(k, st, st2) ==
    \A x \in StoreKeys \ {k} :
        /\ x \in DOMAIN st <=> x \in DOMAIN st2
        /\ x \in DOMAIN st => st2[x] = st[x]

(* C39: cache_set(k, ...), cache_delete(k) and cache_get(k), its expiry     *)
(* delete included, leave every entry whose key differs from k unchanged in *)
(* value, timestamp and ttl; cache_get of an absent or unexpired entry      *)
(* changes nothing in the store.                                            *)
C39_SingleKeyFrame ==
    [][/\ sop'.op \in {"set", "delete", "get"} => SameButFor(sop'.key, store, store')
       /\ (/\ sop'.op = "get"
           /\ clock' = clock
           /\ sop'.key \in DOMAIN store => ~Expired(store[sop'.key], clock))
          => store' = store]_vars

\* a cache_get has deleted the expired row of its key and the row of the other
\* key, expired as well, is still there
C39_Witness ==
    /\ sop.op = "get"
    /\ sop.at = clock
    /\ sop.found
    /\ sop.key \notin DOMAIN store
    /\ \E x \in DOMAIN store : x # sop.key /\ Expired(store[x], clock)

(* C12: the table holds at most one row per key, and while the latest      *)
(* cache_set of a key has not been followed by a delete, a clear or an      *)
(* expiry of that key, the key's row carries exactly the value, the ttl and *)
(* the creation timestamp (time of the call, in whole seconds) of that      *)
(* latest cache_set.                                                        *)
C12_UpsertLastWriterWins ==
    \A k \in StoreKeys :
        (lastSet[k] # <<>> /\ k \in DOMAIN store) =>
            /\ JsonLoads(store[k].value_json) = lastSet[k][1].v
            /\ store[k].ttl_seconds = lastSet[k][1].ttl
            /\ store[k].created_at = IntTime(lastSet[k][1].t0)

\* a cache_set has replaced a different row of its key, and the row is the new one
C12_Witness ==
    \E k \in StoreKeys :
        /\ sop.op = "set" /\ sop.key = k /\ sop.found
        /\ lastSet[k] # <<>>
        /\ k \in DOMAIN store
        /\ JsonLoads(store[k].value_json) = lastSet[k][1].v
        /\ store[k].ttl_seconds = lastSet[k][1].ttl
        /\ store[k].created_at = IntTime(lastSet[k][1].t0)

\* str.startswith on keys
StartsWith(k, p) == Len(p) <= Len(k) /\ SubSeq(k, 1, Len(p)) = p

(* C13: for every non-empty prefix p and every table content, after        *)
(* cache_clear(p) no row whose key starts with p remains, and every row     *)
(* whose key does not start with p is still there with unchanged value,     *)
(* timestamp and ttl.                                                       *)
C13_ClearByPrefix ==
    [][(sop'.op = "clear" /\ sop'.key # <<>>) =>
          \A k \in DOMAIN store :
              IF StartsWith(k, sop'.key)
              THEN k \notin DOMAIN store'
              ELSE k \in DOMAIN store' /\ store'[k] = store[k]]_vars

(* C27: after cache_clear with a null prefix the table holds no entry at    *)
(* all, whatever it held before.                                            *)
C27_ClearAll ==
    (sop.op = "clear" /\ sop.prefix = {}) => store = EmptyStore

\* cache_clear(None) has just emptied a table that held rows
C27_Witness ==
    /\ sop.op = "clear"
    /\ sop.prefix = {}
    /\ sop.found
    /\ store = EmptyStore

(* C14: the store's read of a key returns the stored value of any present  *)
(* entry whatever its age (also when now - created_at > ttl), and never     *)
(* deletes the entry it reads.  cache_get is the only read the store has.   *)
C14_RawRead ==
    (GetAfterSet /\ sop.found) => (sop.ret = SetRead.v /\ sop.key \in DOMAIN store)

----------------------------------------------------------------------------
(* SpecMemo: successive _cache_get_or_set(MemoKey, mttl, fn) calls of one  *)
(* handler; the loader fn returns a value or raises, and takes time        *)

LoaderValues == {PyNone, PyStr("a"), PyDate("2024-01-02"), PyDict(<<>>), PyList(<<>>)}
LoaderErrors == {"YFError: 429", "YFError: timeout"}

MemoInit ==
    /\ clock = 0
    /\ store = EmptyStore
    /\ StoreOpIdle
    /\ mpc = "idle"
    /\ mttl \in 1..MaxTTL
    /\ mcur = NoCall
    /\ mres = NoResult
    /\ mstored = <<>>
    /\ YFIdle
    /\ HttpIdle
    /\ QuotaIdle
    /\ RaceIdle
    /\ NormIdle
    /\ ExtIdle

\* (mutant of MemoFailStore: the failure is cached as a None entry)
MemoFailStoreNone(st, now) == CacheSetStore(st, MemoKey, PyNone, {mttl}, now)

\* line 64: fn() raises, so lines 65-67 never run and the table is left as it is
MemoFailStore(st, now) == st

\* lines 61-63: hit = cache_get(key); a hit that is not None is returned
MemoCall ==
    /\ mpc = "idle"
    /\ LET hit == CacheGetResult(store, MemoKey, clock)
           after == CacheGetStore(store, MemoKey, clock)
       IN  /\ store' = after
           /\ IF hit # PyNone
              THEN /\ mres' = [kind |-> "return", val |-> hit, err |-> "", stale |-> FALSE,
                               loads |-> 0, readAt |-> clock, before |-> store,
                               after |-> after, stored |-> mstored]
                   /\ UNCHANGED <<mpc, mcur>>
              ELSE /\ mpc' = "loading"
                   /\ mcur' = [readAt |-> clock, before |-> store, stored |-> mstored]
                   /\ UNCHANGED mres
    /\ UNCHANGED <<clock, mttl, mstored, outsideMemo>>

\* lines 64-67: val = _json_safe(fn()); cache_set(key, val, ttl_seconds=ttl); return val
LoaderReturns(v) ==
    /\ mpc = "loading"
    /\ LET val == JsonSafe(v)
           after == CacheSetStore(store, MemoKey, val, {mttl}, clock)
       IN  /\ store' = after
           /\ mres' = [kind |-> "return", val |-> val, err |-> "", stale |-> FALSE,
                       loads |-> 1, readAt |-> mcur.readAt, before |-> mcur.before,
                       after |-> after, stored |-> mcur.stored]
           /\ mstored' = <<[t0 |-> clock, v |-> val]>>
    /\ mpc' = "idle"
    /\ UNCHANGED <<clock, mttl, mcur, outsideMemo>>

\* line 64: fn() raises e, which leaves _cache_get_or_set as it is
LoaderRaises(e) ==
    /\ mpc = "loading"
    /\ store' = MemoFailStore(store, clock)
    /\ mres' = [kind |-> "raise", val |-> PyNone, err |-> e, stale |-> FALSE,
                loads |-> 1, readAt |-> mcur.readAt, before |-> mcur.before,
                after |-> store', stored |-> mcur.stored]
    /\ mpc' = "idle"
    /\ UNCHANGED <<clock, mttl, mcur, mstored, outsideMemo>>

MemoNext ==
    \/ Tick
    \/ MemoCall
    \/ \E v \in LoaderValues : LoaderReturns(v)
    \/ \E e \in LoaderErrors : LoaderRaises(e)

SpecMemo == MemoInit /\ [][MemoNext]_vars

\* a call has completed / the latest successful load before it began
MemoDone == mres.kind # "none"
MemoLoaderFailed == mres.kind = "raise" \/ (mres.kind = "return" /\ mres.stale)
PriorLoad == mres.stored[1]
\* time from that load to the call's read of the cache, in ticks
PriorAge == mres.readAt - PriorLoad.t0

(* C1: a value was loaded at t0, the loader fails in this call (and has    *)
(* failed ever since t0), and the call reads at a time t with              *)
(* t0 + ttl < t < t0 + ttl + grace: the call returns the t0 value marked   *)
(* stale instead of raising.  (Stated for a stored value other than null.)  *)
C1_StaleFallback ==
    (/\ MemoDone
     /\ mres.loads = 1
     /\ mres.kind # "return" \/ mres.stale
     /\ mres.stored # <<>>
     /\ PriorLoad.v # PyNone
     /\ PriorAge > mttl * TicksPerSec
     /\ PriorAge < (mttl + Grace) * TicksPerSec)
    => (mres.kind = "return" /\ mres.stale /\ mres.val = PriorLoad.v)

(* C3: a call that reads the cache no more than ttl seconds after a value  *)
(* was stored returns that value as fresh, without invoking the loader and *)
(* without writing to the store.                                           *)
C3_FreshHit ==
    (MemoDone /\ mres.stored # <<>> /\ PriorAge <= mttl * TicksPerSec)
    => /\ mres.kind = "return"
       /\ ~mres.stale
       /\ mres.val = PriorLoad.v
       /\ mres.loads = 0
       /\ mres.after = mres.before

(* C34: after a load for the key has succeeded and its result was stored,   *)
(* every further call within the TTL returns the stored value and does not *)
(* invoke the loader again, for every value the loader can return: null,   *)
(* an empty mapping and an empty list included.                            *)
C34_LoadServedFromCache ==
    \A v \in {JsonSafe(x) : x \in LoaderValues} :
        (/\ MemoDone
         /\ mres.stored # <<>>
         /\ PriorLoad.v = v
         /\ PriorAge <= mttl * TicksPerSec)
        => (mres.loads = 0 /\ mres.val = v)

(* C4: when the loader fails and no value stored less than ttl + grace ago *)
(* exists (never stored, or stored more than ttl + grace ago), the call    *)
(* raises the loader's error and leaves no new or modified entry under the *)
(* key: the key is absent afterwards, or its row is the one from before.   *)
C4_NoFallbackRaises ==
    (/\ MemoDone
     /\ mres.loads = 1
     /\ mres.err \in LoaderErrors
     /\ mres.stored = <<>> \/ PriorAge > (mttl + Grace) * TicksPerSec)
    => /\ mres.kind = "raise"
       /\ \/ MemoKey \notin DOMAIN mres.after
          \/ (MemoKey \in DOMAIN mres.before /\ mres.after[MemoKey] = mres.before[MemoKey])

\* the loader failed on a value stored more than ttl + grace ago, and the call raised
C4_Witness ==
    /\ mres.kind = "raise"
    /\ mres.err \in LoaderErrors
    /\ mres.stored # <<>>
    /\ PriorAge > (mttl + Grace) * TicksPerSec
    /\ MemoKey \in DOMAIN mres.before
    /\ MemoKey \notin DOMAIN mres.after

----------------------------------------------------------------------------
(* SpecYF: one yf_call(fn, max_attempts) of one thread; each invocation of *)
(* the thunk fn returns a value or raises one of ThunkErrors               *)

\* time.time() is seconds since 1970 and _LAST_REQ_TS starts at 0.0, or holds
\* the time of a request made a moment ago
YFStart ==
    /\ wall = 2 * MIN_SECONDS_BETWEEN_REQUESTS
    /\ lastReqTs \in {0, wall - 3}
    /\ ypc = "try"
    /\ ymax \in 1..MaxAttempts
    /\ yattempt = 1
    /\ ylast = <<>>
    /\ yres = NoYFResult
    /\ yhist = NoYFHist

YFInit ==
    /\ clock = 0
    /\ store = EmptyStore
    /\ StoreOpIdle
    /\ MemoIdle
    /\ ThreadsIdle
    /\ HttpIdle
    /\ QuotaIdle
    /\ RaceIdle
    /\ NormIdle
    /\ ExtIdle
    /\ YFStart

\* lines 68-73: with _REQ_LOCK: sleep the throttle wait, stamp _LAST_REQ_TS
YFThrottle ==
    /\ ypc = "try"
    /\ LET wait == ThrottleWait(wall, lastReqTs)
       IN  wall' = IF wait > 0 THEN wall + wait ELSE wall
    /\ lastReqTs' = wall'
    /\ ypc' = "call"
    /\ UNCHANGED <<ymax, yattempt, ylast, yres, yhist, outsideYF>>

\* (mutant of YFThunkReturns: the value is kept and the loop goes on to the
\* next attempt, if there is one)
YFThunkReturnsLoopGoesOn(v) ==
    /\ ypc = "call"
    /\ yres' = [kind |-> "return", val |-> v, exc |-> "", msg |-> ""]
    /\ yhist' = [yhist EXCEPT !.calls = @ + 1, !.out = <<ThunkOk>>, !.allRateLimit = FALSE,
                              !.okAt = IF @ = 0 THEN yattempt ELSE @,
                              !.okVal = IF yhist.okAt = 0 THEN v ELSE @]
    /\ IF ExhaustedNow(yattempt, ymax)
       THEN ypc' = "done" /\ UNCHANGED yattempt
       ELSE ypc' = "try" /\ yattempt' = yattempt + 1
    /\ UNCHANGED <<wall, lastReqTs, ymax, ylast, outsideYF>>

\* line 75: return fn()
YFThunkReturns(v) ==
    /\ ypc = "call"
    /\ yres' = [kind |-> "return", val |-> v, exc |-> "", msg |-> ""]
    /\ yhist' = [yhist EXCEPT !.calls = @ + 1, !.out = <<ThunkOk>>, !.allRateLimit = FALSE,
                              !.okAt = yattempt, !.okVal = v]
    /\ ypc' = "done"
    /\ UNCHANGED <<wall, lastReqTs, ymax, yattempt, ylast, outsideYF>>

\* lines 77-92: fn() raised e; give up after the last attempt, else back off
YFThunkRaises(e, jitter) ==
    /\ ypc = "call"
    /\ ylast' = <<e>>
    /\ IF ExhaustedNow(yattempt, ymax)
       THEN /\ yres' = [kind |-> "raise", val |-> PyNone] @@ YFErrorOf(ylast')
            /\ ypc' = "done"
            /\ yhist' = [yhist EXCEPT !.calls = @ + 1, !.out = <<e>>,
                                      !.allRateLimit = @ /\ e.kind = "ratelimit"]
            /\ UNCHANGED <<wall, yattempt>>
       ELSE LET sleep_s == BackoffBase(e, yattempt) + jitter
            IN  /\ wall' = wall + sleep_s
                /\ yattempt' = yattempt + 1
                /\ ypc' = "try"
                /\ yhist' = [yhist EXCEPT !.calls = @ + 1, !.out = <<e>>,
                                          !.allRateLimit = @ /\ e.kind = "ratelimit",
                                          !.sleeps = @ + 1, !.delay = sleep_s,
                                          !.failedAt = yattempt,
                                          !.failedRL = e.kind = "ratelimit",
                                          !.sumBase = @ + ScheduleBase(yattempt, e.kind = "ratelimit"),
                                          !.total = @ + sleep_s]
                /\ UNCHANGED yres
    /\ UNCHANGED <<lastReqTs, ymax, outsideYF>>

YFNext ==
    \/ YFThrottle
    \/ \E v \in ThunkValues : YFThunkReturns(v)
    \/ \E e \in ThunkErrors, j \in Jitters : YFThunkRaises(e, j)

SpecYF == YFInit /\ [][YFNext]_vars

\* the last invocation of the thunk raised an exception of this kind
LastRaised(kind) == yhist.out # <<>> /\ yhist.out[1].kind = kind

(* C6: a thunk that raises a rate-limit-shaped error on every invocation   *)
(* is invoked exactly max_attempts times; yf_call then raises YFError      *)
(* carrying the last underlying error, never invokes it again and never    *)
(* returns a value.                                                        *)
C6_BoundedRetry ==
    /\ yhist.calls <= ymax
    /\ (yhist.allRateLimit /\ yhist.calls = ymax)
          => /\ ypc = "done"
             /\ yres.kind = "raise"
             /\ yres.exc = "YFError"
             /\ yres.msg = yhist.out[1].msg
    /\ (yhist.allRateLimit /\ ypc = "done")
          => (yhist.calls = ymax /\ yres.kind = "raise")

\* three or more rate-limited attempts, all used up
C6_Witness ==
    /\ ypc = "done"
    /\ yhist.allRateLimit
    /\ ymax >= 3
    /\ yhist.calls = ymax
    /\ yres.kind = "raise"

(* C7: after attempt k < max_attempts fails, the wait d before attempt k+1 *)
(* satisfies base <= d <= base + 0.6 s with base = min(5 * 2^(k-1), 60)    *)
(* for a rate-limit-shaped error and min(2^(k-1), 20) otherwise; no wait   *)
(* follows the final attempt; so the total backoff time lies between the   *)
(* sum of the bases and that sum plus 0.6 * (max_attempts - 1).            *)
C7_BackoffSchedule ==
    /\ yhist.sleeps > 0 =>
          /\ yhist.failedAt < ymax
          /\ ScheduleBase(yhist.failedAt, yhist.failedRL) <= yhist.delay
          /\ yhist.delay <= ScheduleBase(yhist.failedAt, yhist.failedRL) + JitterMax
    /\ yhist.sleeps <= ymax - 1
    /\ ypc = "done" => yhist.sleeps = yhist.calls - 1
    /\ yhist.sumBase <= yhist.total
    /\ yhist.total <= yhist.sumBase + JitterMax * (ymax - 1)

\* both caps reached: 60 s after a rate-limit failure, 20 s after another failure
C7_Witness ==
    /\ ypc = "done"
    /\ yhist.failedAt = 6
    /\ ~yhist.failedRL
    /\ yhist.delay = 200 + JitterMax
    /\ yhist.sumBase = 50 + 100 + 200 + 400 + 600 + 200

(* C35: if the thunk first succeeds on attempt k <= max_attempts, yf_call    *)
(* invokes it exactly k times, performs exactly k - 1 backoff waits, and    *)
(* returns exactly the value that the k-th invocation produced.             *)
C35_FirstSuccessEndsLoop ==
    yhist.okAt > 0 =>
        /\ yhist.okAt <= ymax
        /\ ypc = "done"
        /\ yhist.calls = yhist.okAt
        /\ yhist.sleeps = yhist.okAt - 1
        /\ yres.kind = "return"
        /\ yres.val = yhist.okVal

\* two failures, two backoff waits, then the third invocation returned its value
C35_Witness ==
    /\ ypc = "done"
    /\ yhist.okAt = 3
    /\ ymax > 3
    /\ yhist.calls = 3
    /\ yhist.sleeps = 2
    /\ yres = [kind |-> "return", val |-> PyStr("history"), exc |-> "", msg |-> ""]

(* C8: when the thunk raises a non-transient error (a 4xx other than 429,  *)
(* a malformed response), yf_call fails immediately: no backoff wait and   *)
(* no further attempt follow that invocation.                              *)
C8_NonTransientNotRetried ==
    LastRaised("nontransient") =>
        /\ ypc = "done"
        /\ yres.kind = "raise"
        /\ yhist.failedAt < yhist.calls

----------------------------------------------------------------------------
(* SpecThrottle: the threads of one process, each in one yf_call, stepping  *)
(* statement by statement while wall-clock time passes                      *)

ThrottleErrors == {ErrHttp429, ErrHttp500}
ThrottleJitters == {0, JitterMax}

ThrottleInit ==
    /\ clock = 0
    /\ store = EmptyStore
    /\ StoreOpIdle
    /\ MemoIdle
    /\ YFOff
    /\ HttpIdle
    /\ QuotaIdle
    /\ RaceIdle
    /\ NormIdle
    /\ ExtIdle
    /\ wall = 2 * MIN_SECONDS_BETWEEN_REQUESTS
    /\ lastReqTs = 0
    /\ reqLock = {}
    /\ tpc = [t \in Threads |-> "acquire"]
    /\ tloc \in [Threads -> {[attempt |-> 1, max |-> m, wake |-> 0] : m \in 1..2}]
    /\ thist = NoThreadHist

\* (mutant of LockFree: the throttle runs without the mutex)
LockIgnored(l) == TRUE

\* line 68: with _REQ_LOCK: is entered only while no thread holds the lock
LockFree(l) == l = {}

\* time passes; a thread that is not asleep may be kept waiting by the scheduler
WallTick ==
    /\ wall < 2 * MIN_SECONDS_BETWEEN_REQUESTS + Horizon
    /\ wall' = wall + 1
    /\ UNCHANGED <<lastReqTs, threadVars, outsideThrottle>>

\* lines 68-72: enter the lock, read now, compute wait and start sleeping it
ThreadEnter(t) ==
    /\ tpc[t] = "acquire"
    /\ LockFree(reqLock)
    /\ reqLock' = reqLock \cup {t}
    /\ LET wait == ThrottleWait(wall, lastReqTs)
       IN  tloc' = [tloc EXCEPT ![t].wake = IF wait > 0 THEN wall + wait ELSE wall]
    /\ tpc' = [tpc EXCEPT ![t] = "throttled"]
    /\ UNCHANGED <<wall, lastReqTs, thist, outsideThrottle>>

\* (mutant of ThreadStamp: the lock is kept while the thunk runs)
ThreadStampKeepsLock(t) ==
    /\ tpc[t] = "throttled"
    /\ wall >= tloc[t].wake
    /\ lastReqTs' = wall
    /\ thist' = [thist EXCEPT !.stamps = @ + 1]
    /\ tpc' = [tpc EXCEPT ![t] = "call"]
    /\ UNCHANGED <<wall, reqLock, tloc, outsideThrottle>>

\* lines 72-73: time.sleep(wait) is over; _LAST_REQ_TS = time.time(); leave the lock
ThreadStamp(t) ==
    /\ tpc[t] = "throttled"
    /\ wall >= tloc[t].wake
    /\ lastReqTs' = wall
    /\ reqLock' = reqLock \ {t}
    /\ thist' = [thist EXCEPT
                   !.stamps = @ + 1,
                   !.stampsApart = @ /\ (thist.stamps > 0 =>
                                           wall - lastReqTs >= MIN_SECONDS_BETWEEN_REQUESTS)]
    /\ tpc' = [tpc EXCEPT ![t] = "call"]
    /\ UNCHANGED <<wall, tloc, outsideThrottle>>

ThreadStarts(t) ==
    [thist EXCEPT
       !.starts = @ + 1,
       !.lastStart = wall,
       !.startsApart = @ /\ (thist.starts > 0 =>
                               wall - thist.lastStart >= MIN_SECONDS_BETWEEN_REQUESTS),
       !.startedUnstamped = @ \/ thist.stamps <= thist.starts]

\* line 75: return fn()
ThreadThunkReturns(t) ==
    /\ tpc[t] = "call"
    /\ thist' = ThreadStarts(t)
    /\ tpc' = [tpc EXCEPT ![t] = "done"]
    /\ UNCHANGED <<wall, lastReqTs, reqLock, tloc, outsideThrottle>>

\* lines 75-90: fn() raised e; give up after the last attempt, else start the backoff sleep
ThreadThunkRaises(t, e, jitter) ==
    /\ tpc[t] = "call"
    /\ thist' = ThreadStarts(t)
    /\ IF ExhaustedNow(tloc[t].attempt, tloc[t].max)
       THEN /\ tpc' = [tpc EXCEPT ![t] = "done"]
            /\ UNCHANGED tloc
       ELSE /\ tpc' = [tpc EXCEPT ![t] = "backoff"]
            /\ tloc' = [tloc EXCEPT ![t].attempt = @ + 1,
                                    ![t].wake = wall + BackoffBase(e, tloc[t].attempt) + jitter]
    /\ UNCHANGED <<wall, lastReqTs, reqLock, outsideThrottle>>

\* line 90: time.sleep(sleep_s) is over; next iteration of the loop
ThreadBackoffOver(t) ==
    /\ tpc[t] = "backoff"
    /\ wall >= tloc[t].wake
    /\ tpc' = [tpc EXCEPT ![t] = "acquire"]
    /\ UNCHANGED <<wall, lastReqTs, reqLock, tloc, thist, outsideThrottle>>

ThrottleNext ==
    \/ WallTick
    \/ \E t \in Threads : ThreadEnter(t)
    \/ \E t \in Threads : ThreadStamp(t)
    \/ \E t \in Threads : ThreadThunkReturns(t)
    \/ \E t \in Threads, e \in ThrottleErrors, j \in ThrottleJitters : ThreadThunkRaises(t, e, j)
    \/ \E t \in Threads : ThreadBackoffOver(t)

SpecThrottle == ThrottleInit /\ [][ThrottleNext]_vars

(* C5 (as stated): for any interleaving of threads calling yf_call, any    *)
(* two thunk invocations (first attempts and retries alike) are started at *)
(* least MIN_SECONDS_BETWEEN_REQUESTS (0.9 s) apart.                       *)
C5_ThunkStartsApart == thist.startsApart

(* C5 (amended): any two throttle passages, that is any two updates of      *)
(* _LAST_REQ_TS made under _REQ_LOCK, are at least 0.9 s apart, at most one *)
(* thread is inside the lock, and every thunk invocation (first attempt or *)
(* retry) starts only after a passage of its own.                          *)
C5_StampsApart ==
    /\ thist.stampsApart
    /\ Cardinality(reqLock) <= 1
    /\ ~thist.startedUnstamped
    /\ \A t \in Threads : tpc[t] = "throttled" <=> t \in reqLock

\* both threads have invoked their thunks, one of them a retry, and the starts
\* of two invocations were less than 0.9 s apart
C5_Witness ==
    /\ thist.stamps >= 3
    /\ thist.starts >= 3
    /\ ~thist.startsApart
    /\ \E t \in Threads : tloc[t].attempt = 2

----------------------------------------------------------------------------
(* SpecThrottleFair: the same threads under a fair scheduler, with thunks   *)
(* that terminate; time passes for as long as some thread is asleep, from   *)
(* one end of a sleep to the next                                           *)

Asleep(t) == tpc[t] \in {"throttled", "backoff"} /\ wall < tloc[t].wake

\* time.sleep of lines 72 and 90: time passes until the first of the sleeping
\* threads is due
WallAdvance ==
    /\ \E t \in Threads : Asleep(t)
    /\ LET due == {tloc[t].wake : t \in {u \in Threads : Asleep(u)}}
       IN  wall' = CHOOSE w \in due : \A x \in due : w <= x
    /\ UNCHANGED <<lastReqTs, threadVars, outsideThrottle>>

\* the steps of the yf_call of thread t
ThreadStep(t) ==
    \/ ThreadEnter(t)
    \/ ThreadStamp(t)
    \/ ThreadThunkReturns(t)
    \/ \E e \in ThrottleErrors, j \in ThrottleJitters : ThreadThunkRaises(t, e, j)
    \/ ThreadBackoffOver(t)

ThrottleFairNext ==
    \/ WallAdvance
    \/ \E t \in Threads : ThreadStep(t)

\* the scheduler runs every thread that can take a step, thunks return or
\* raise, and sleeps end
SpecThrottleFair ==
    /\ ThrottleInit
    /\ [][ThrottleFairNext]_vars
    /\ WF_vars(WallAdvance)
    /\ \A t \in Threads : WF_vars(ThreadStep(t))

(* C36: the throttle mutex of yf_call is held by a thread only during the   *)
(* timestamp check, the throttle wait and the timestamp update, never while *)
(* its thunk runs nor during a backoff sleep, and it is released on every   *)
(* path; with a fair scheduler and thunks that terminate every concurrent   *)
(* yf_call eventually returns or raises.                                    *)
C36_LockScopeAndProgress ==
    /\ [](\A t \in Threads : t \in reqLock <=> tpc[t] = "throttled")
    /\ [](Cardinality(reqLock) <= 1)
    /\ \A t \in Threads : <>(tpc[t] = "done")

\* one thread sleeps its backoff while the other holds the lock for its throttle wait
C36_Witness ==
    \E t, u \in Threads :
        /\ tpc[t] = "backoff" /\ Asleep(t) /\ t \notin reqLock
        /\ tpc[u] = "throttled" /\ reqLock = {u}
        /\ thist.stamps >= 1

----------------------------------------------------------------------------
(* SpecHttp: one handler using one of the three upstream clients:           *)
(* rapidapi_cached_get (with rapidapi_get inside), sec_client.get_json, or  *)
(* yf_call; every upstream request answers with one of Responses or fails   *)
(* at the network level                                                     *)

\* the table after two handlers missed the cache together and one of them got
\* an error, the other the data
RapidBothStore(cfg) ==
    CacheSetStore(CacheSetStore(EmptyStore, RapidErrKey, PyStr("HTTP error"), {cfg.errTtl}, 0),
                  RapidKey, ResponseData, {cfg.ttl}, 0)

HttpInit ==
    /\ clock = 0
    /\ StoreOpIdle
    /\ MemoIdle
    /\ ThreadsIdle
    /\ client \in {"rapid", "sec", "yf"}
    /\ IF client = "yf" THEN YFStart ELSE (wall = 0 /\ lastReqTs = 0 /\ YFOff)
    /\ rcfg \in IF client = "rapid"
                THEN [hasKey : BOOLEAN, ttl : 1..MaxTTL, errTtl : {1}]
                ELSE {[hasKey |-> FALSE, ttl |-> 0, errTtl |-> 0]}
    /\ store \in IF client = "rapid" /\ rcfg.hasKey
                 THEN {EmptyStore, RapidBothStore(rcfg)} ELSE {EmptyStore}
    /\ rpc = "idle"
    /\ rattempt = 0
    /\ rres = NoHttpResult
    /\ rhist = NoRapidHist
    /\ rtrack = NoRapidTrack
    /\ secWall = IF client = "sec" THEN 2 ELSE 0
    /\ secLastCallTs = 0
    /\ sres = NoHttpResult
    /\ QuotaIdle
    /\ RaceIdle
    /\ NormIdle
    /\ ExtIdle

\* rapidapi_cached_get lines 113-121, and rapidapi_get lines 51-52 when no key is set
RapidCachedGet ==
    /\ client = "rapid"
    /\ rpc = "idle"
    /\ clock <= MaxClock
    /\ LET cached == CacheGetResult(store, RapidKey, clock)
           st1 == CacheGetStore(store, RapidKey, clock)
           recent_err == CacheGetResult(st1, RapidErrKey, clock)
           st2 == CacheGetStore(st1, RapidErrKey, clock)
           noKey == [kind |-> "raise", val |-> PyNone, exc |-> "RapidAPIError",
                     msg |-> "Falta RAPIDAPI_KEY"]
           call == <<[at |-> clock, hit |-> cached # PyNone, prior |-> rtrack.failed]>>
       IN  IF cached # PyNone
           THEN /\ store' = st1
                /\ rres' = [kind |-> "return", val |-> cached, exc |-> "", msg |-> ""]
                /\ rhist' = NoRapidHist
                /\ rtrack' = [rtrack EXCEPT !.call = call]
                /\ UNCHANGED <<rpc, rattempt>>
           ELSE IF Truthy(recent_err)
           THEN /\ store' = st2
                /\ rres' = [kind |-> "raise", val |-> PyNone, exc |-> "RapidAPIError",
                            msg |-> recent_err.s]
                /\ rhist' = NoRapidHist
                /\ rtrack' = [rtrack EXCEPT !.call = call]
                /\ UNCHANGED <<rpc, rattempt>>
           ELSE IF ~rcfg.hasKey
           THEN /\ store' = RapidRecord(st2, rcfg, noKey, clock)
                /\ rres' = noKey
                /\ rhist' = NoRapidHist
                /\ rtrack' = [failed |-> <<[at |-> clock, msg |-> noKey.msg]>>, call |-> call]
                /\ UNCHANGED <<rpc, rattempt>>
           ELSE /\ store' = st2
                /\ rpc' = "request"
                /\ rattempt' = 1
                /\ rhist' = NoRapidHist
                /\ rtrack' = [rtrack EXCEPT !.call = call]
                /\ UNCHANGED rres
    /\ UNCHANGED <<clock, rcfg, outsideRapid>>

\* rapidapi_get lines 67-98 for one answered request, then rapidapi_cached_get
\* lines 125-129: retry after a sleep, or end the call
RapidResponse(resp, jitter) ==
    /\ rpc = "request"
    /\ IF RapidRetryStatus(resp.status) /\ rattempt # RapidMaxAttempts
       THEN /\ clock' = clock + (2 ^ (rattempt - 1)) * TicksPerSec + jitter
            /\ rattempt' = rattempt + 1
            /\ rhist' = [rhist EXCEPT !.requests = @ + 1, !.last = <<resp>>, !.sleeps = @ + 1,
                                      !.statuses = Append(@, resp.status),
                                      !.waits = Append(@, clock' - clock)]
            /\ UNCHANGED <<store, rpc, rres, rtrack>>
       ELSE /\ store' = RapidRecord(store, rcfg, RapidOutcome(resp), clock)
            /\ rres' = RapidOutcome(resp)
            /\ rpc' = "idle"
            /\ rhist' = [rhist EXCEPT !.requests = @ + 1, !.last = <<resp>>,
                                      !.statuses = Append(@, resp.status)]
            /\ rtrack' = [rtrack EXCEPT !.failed =
                              IF RapidOutcome(resp).kind = "raise"
                              THEN <<[at |-> clock, msg |-> RapidOutcome(resp).msg]>>
                              ELSE <<>>]
            /\ UNCHANGED <<clock, rattempt>>
    /\ UNCHANGED <<rcfg, outsideRapid>>

\* rapidapi_get line 68: requests.get raises
RapidNetworkFails ==
    /\ rpc = "request"
    /\ store' = RapidRecord(store, rcfg, RapidNetworkOutcome, clock)
    /\ rres' = RapidNetworkOutcome
    /\ rpc' = "idle"
    /\ rhist' = [rhist EXCEPT !.requests = @ + 1, !.last = <<NetworkFailure>>,
                              !.statuses = Append(@, NetworkFailure.status)]
    /\ UNCHANGED <<clock, rattempt, rcfg, rtrack, outsideRapid>>

\* sec_client.get_json: _throttle(), then one request
SecGetJson(resp) ==
    /\ client = "sec"
    /\ secWall < 2 + SecHorizon
    /\ secWall' = SecThrottleEnd(secWall, secLastCallTs)
    /\ secLastCallTs' = secWall'
    /\ sres' = SecOutcome(resp) @@ [last |-> resp]
    /\ UNCHANGED outsideSec

SecTick ==
    /\ client = "sec"
    /\ secWall < 2 + SecHorizon
    /\ secWall' = secWall + 1
    /\ UNCHANGED <<secLastCallTs, sres, outsideSec>>

HttpTick == client = "rapid" /\ Tick

HttpNext ==
    \/ HttpTick
    \/ RapidCachedGet
    \/ \E r \in Responses, j \in {0, TicksPerSec \div 2} : RapidResponse(r, j)
    \/ RapidNetworkFails
    \/ \E r \in Responses \cup {NetworkFailure} : SecGetJson(r)
    \/ SecTick
    \/ YFNext

SpecHttp == HttpInit /\ [][HttpNext]_vars

\* an upstream request failed: error status, body that is not JSON, network failure
UpstreamFailed(resp) == resp = NetworkFailure \/ resp.status >= 400 \/ ~resp.json

(* C9: every failure of an upstream request made through yf_call,           *)
(* rapidapi_get / rapidapi_cached_get or sec_client.get_json (HTTP error    *)
(* status, non-JSON body, network I/O failure) surfaces as the client's     *)
(* typed error (YFError, RapidAPIError, SecClientError), never as the       *)
(* underlying transport exception.                                          *)
C9_TypedErrorsOnly ==
    /\ yres.kind = "raise" => yres.exc = "YFError"
    /\ rres.kind = "raise" => rres.exc = "RapidAPIError"
    /\ sres.kind = "raise" => sres.exc = "SecClientError"
    /\ (rpc = "idle" /\ rhist.last # <<>> /\ UpstreamFailed(rhist.last[1]))
          => rres.kind = "raise"
    /\ (sres.kind # "none" /\ UpstreamFailed(sres.last)) => sres.kind = "raise"
    /\ (ypc = "done" /\ yhist.out # <<>> /\ yhist.out[1].kind # "value")
          => yres.kind = "raise"

\* the latest rapidapi_cached_get call has issued an HTTP request
RequestIssued == rpc = "request" \/ rhist.requests >= 1

\* the latest call returned the cached data, or raised what the marker holds,
\* without any HTTP request
ServedFromCache == rpc = "idle" /\ rres.kind = "return" /\ rhist.requests = 0
RaisedFromMarker(msg) ==
    /\ rpc = "idle"
    /\ rres.kind = "raise" /\ rres.exc = "RapidAPIError" /\ rres.msg = msg
    /\ rhist.requests = 0

(* C24 (as stated): after rapidapi_cached_get has failed with a             *)
(* RapidAPIError at time t for a cache_key without cached data, every call  *)
(* for that key at a time <= t + error_ttl_seconds raises RapidAPIError     *)
(* with the recorded message and issues no HTTP request; the first call     *)
(* after that window issues a request again; cached data always takes       *)
(* precedence over the error marker.                                        *)
C24_BreakerExactTime ==
    rtrack.call # <<>> =>
        LET c == rtrack.call[1]
        IN  /\ c.hit => ServedFromCache
            /\ (~c.hit /\ c.prior # <<>>) =>
                  IF c.at <= c.prior[1].at + rcfg.errTtl * TicksPerSec
                  THEN RaisedFromMarker(c.prior[1].msg)
                  ELSE RequestIssued

(* C24 (amended): the window is counted on whole-second clocks: every call  *)
(* at a time with int(now) <= int(t) + error_ttl_seconds raises             *)
(* RapidAPIError with the recorded message and issues no HTTP request; the  *)
(* first call after that runs rapidapi_get again, which issues a request    *)
(* when RAPIDAPI_KEY is set and fails anew when it is not; cached data      *)
(* always takes precedence over the error marker.                           *)
C24_BreakerWholeSeconds ==
    rtrack.call # <<>> =>
        LET c == rtrack.call[1]
        IN  /\ c.hit => ServedFromCache
            /\ (~c.hit /\ c.prior # <<>>) =>
                  IF IntTime(c.at) - IntTime(c.prior[1].at) <= rcfg.errTtl
                  THEN RaisedFromMarker(c.prior[1].msg)
                  ELSE IF rcfg.hasKey THEN RequestIssued
                       ELSE rtrack.failed = <<[at |-> c.at, msg |-> "Falta RAPIDAPI_KEY"]>>

\* a call made more than error_ttl_seconds after an upstream failure, yet within
\* the same whole-second window, was refused from the marker without a request
C24_Witness ==
    /\ rtrack.call # <<>>
    /\ ~rtrack.call[1].hit
    /\ rtrack.call[1].prior # <<>>
    /\ rtrack.call[1].prior[1].msg = "HTTP error"
    /\ rtrack.call[1].at > rtrack.call[1].prior[1].at + rcfg.errTtl * TicksPerSec
    /\ RaisedFromMarker("HTTP error")

\* cached data was returned although an error marker in force lay next to it
C24_WitnessPrecedence ==
    /\ rtrack.call # <<>>
    /\ rtrack.call[1].hit
    /\ ServedFromCache
    /\ RapidErrKey \in DOMAIN store
    /\ ~Expired(store[RapidErrKey], clock)

----------------------------------------------------------------------------
(* SpecQuota: handlers calling consume_search and remaining_searches one    *)
(* after the other for two identities, over several UTC days                *)

QuotaInit ==
    /\ clock = 0
    /\ store = EmptyStore
    /\ StoreOpIdle
    /\ MemoIdle
    /\ YFIdle
    /\ HttpIdle
    /\ RaceIdle
    /\ NormIdle
    /\ ExtIdle
    /\ qlimit \in 1..QuotaMaxLimit
    /\ qres = NoQuotaResult
    /\ qcalls = NoQuotaCalls

\* time passes, QuotaStepHours hours at a time
QuotaTick ==
    /\ clock < QuotaSteps * QuotaStepHours * 3600 * TicksPerSec
    /\ clock' = clock + QuotaStepHours * 3600 * TicksPerSec
    /\ UNCHANGED <<store, quotaVars, outsideQuota>>

\* the calls of one identity on one day that the model follows: two more than the limit
CallsFollowed(email) ==
    qcalls[email].day = TodayKey(clock) => qcalls[email].n < qlimit + 2

ConsumeSearch(email) ==
    /\ CallsFollowed(email)
    /\ store' = ConsumeStore(store, email, qlimit, DefaultCost, clock)
    /\ qres' = [op |-> "consume", email |-> email, day |-> TodayKey(clock),
                unchanged |-> (store' = store)]
                  @@ ConsumeResult(store, email, qlimit, DefaultCost, clock)
    /\ qcalls' = [qcalls EXCEPT ![email] =
                     IF @.day = TodayKey(clock) THEN [@ EXCEPT !.n = @ + 1]
                     ELSE [day |-> TodayKey(clock), n |-> 1]]
    /\ UNCHANGED <<clock, qlimit, outsideQuota>>

RemainingSearches(email) ==
    /\ store' = CacheGetStore(store, UsageKey(email, clock), clock)
    /\ qres' = [op |-> "remaining", email |-> email, day |-> TodayKey(clock),
                unchanged |-> (store' = store), allowed |-> FALSE,
                remaining |-> RemainingResult(store, email, qlimit, clock)]
    /\ UNCHANGED <<clock, qlimit, qcalls, outsideQuota>>

QuotaNext ==
    \/ QuotaTick
    \/ \E e \in Emails : ConsumeSearch(e)
    \/ \E e \in Emails : RemainingSearches(e)

SpecQuota == QuotaInit /\ [][QuotaNext]_vars

\* the number of consume_search calls the identity of the last call has made
\* on the UTC day of that call, that call included
CallsToday == qcalls[qres.email].n

(* C10: for an identity with no counter yet and daily_limit = L >= 1, the   *)
(* n-th consume_search call (cost 1) of a UTC day returns (True, L - n) for *)
(* n = 1..L; every further call that day returns (False, 0) and leaves the  *)
(* stored counter unchanged; the first call of the following UTC day        *)
(* returns (True, L - 1) again.                                             *)
C10_QuotaLedger ==
    qres.op = "consume" =>
        IF CallsToday <= qlimit
        THEN /\ qres.allowed
             /\ qres.remaining = qlimit - CallsToday
             /\ UsageKey(qres.email, clock) \in DOMAIN store
                   => JsonLoads(store[UsageKey(qres.email, clock)].value_json) = PyInt(CallsToday)
        ELSE /\ ~qres.allowed
             /\ qres.remaining = 0
             /\ qres.unchanged

\* the limit was used up on one day, a further call was refused, and on a later
\* day the first call has just been allowed again
C10_Witness ==
    /\ qres.op = "consume"
    /\ qlimit = QuotaMaxLimit
    /\ qres.allowed
    /\ CallsToday = 1
    /\ qres.remaining = qlimit - 1
    /\ \E k \in DOMAIN store :
          /\ k[2] = qres.email
          /\ k[4] # qres.day
          /\ JsonLoads(store[k].value_json) = PyInt(qlimit)

----------------------------------------------------------------------------
(* SpecRace: two handlers (threads or processes sharing the cache file)     *)
(* calling _cache_get_or_set(MemoKey, mttl, fn) concurrently, again and     *)
(* again.  cache_get is a SELECT and, for an expired row, a later DELETE on *)
(* a second connection; cache_set is one statement.  A handler can be       *)
(* killed while its loader runs.                                            *)

RaceValues == {PyNone, PyStr("a"), PyDate("2024-01-02")}
RaceErrors == {"YFError: 429"}
RaceMaxClock == 2 * TicksPerSec

LockKey == MemoKey \o <<":lock">>

RaceInit ==
    /\ clock = 0
    /\ store = EmptyStore
    /\ StoreOpIdle
    /\ mpc = "idle" /\ mttl = 1 /\ mcur = NoCall /\ mres = NoResult /\ mstored = <<>>
    /\ YFIdle
    /\ HttpIdle
    /\ QuotaIdle
    /\ NormIdle
    /\ ExtIdle
    /\ cpc = [c \in Callers |-> "idle"]
    /\ cres = [c \in Callers |-> NoRaceResult]
    /\ cstored = {}
    /\ clast = <<>>

RaceTick ==
    /\ clock < RaceMaxClock
    /\ clock' = clock + 1
    /\ UNCHANGED <<store, raceVars, outsideRace>>

\* where the callers other than c are
Peers(c) == {cpc[d] : d \in Callers \ {c}}

\* cache_get lines 30-52 without the delete: the SELECT and what follows from the row
RaceSelect(c) ==
    /\ cpc[c] = "idle"
    /\ IF MemoKey \in DOMAIN store /\ Expired(store[MemoKey], clock)
       THEN cpc' = [cpc EXCEPT ![c] = "expired"] /\ UNCHANGED cres
       ELSE LET hit == CacheGetResult(store, MemoKey, clock)
            IN  IF hit # PyNone
                THEN /\ cres' = [cres EXCEPT ![c] = [kind |-> "return", val |-> hit,
                                                     src |-> "hit", wrote |-> PyNone,
                                                     peers |-> Peers(c)]]
                     /\ UNCHANGED cpc
                ELSE cpc' = [cpc EXCEPT ![c] = "missed"] /\ UNCHANGED cres
    /\ UNCHANGED <<clock, store, cstored, clast, outsideRace>>

\* cache_get lines 46-47: cache_delete(key), then return None
RaceDelete(c) ==
    /\ cpc[c] = "expired"
    /\ store' = CacheDeleteStore(store, MemoKey)
    /\ cpc' = [cpc EXCEPT ![c] = "missed"]
    /\ UNCHANGED <<clock, cres, cstored, clast, outsideRace>>

\* (mutant of MayLoad: a caller waits while another caller's loader is running)
MayLoadAlone(c) == \A d \in Callers \ {c} : cpc[d] \notin {"loading", "crashed"}

\* lines 62-64: after a miss nothing stands between the caller and fn()
MayLoad(c) == TRUE

\* line 64: fn() is called
RaceLoaderStarts(c) ==
    /\ cpc[c] = "missed"
    /\ MayLoad(c)
    /\ cpc' = [cpc EXCEPT ![c] = "loading"]
    /\ UNCHANGED <<clock, store, cres, cstored, clast, outsideRace>>

\* lines 64-67: fn() returns v; val = _json_safe(v); cache_set(key, val, ttl); return val
RaceLoaderReturns(c, v) ==
    /\ cpc[c] = "loading"
    /\ LET val == JsonSafe(v)
       IN  /\ store' = CacheSetStore(store, MemoKey, val, {mttl}, clock)
           /\ cres' = [cres EXCEPT ![c] = [kind |-> "return", val |-> val, src |-> "load",
                                           wrote |-> JsonLoads(store'[MemoKey].value_json),
                                           peers |-> Peers(c)]]
           /\ cstored' = cstored \cup {JsonLoads(store'[MemoKey].value_json)}
           /\ clast' = <<val>>
    /\ cpc' = [cpc EXCEPT ![c] = "idle"]
    /\ UNCHANGED <<clock, outsideRace>>

\* line 64: fn() raises
RaceLoaderRaises(c, e) ==
    /\ cpc[c] = "loading"
    /\ cres' = [cres EXCEPT ![c] = [kind |-> "raise", val |-> PyNone, src |-> e,
                                    wrote |-> PyNone, peers |-> Peers(c)]]
    /\ cpc' = [cpc EXCEPT ![c] = "idle"]
    /\ UNCHANGED <<clock, store, cstored, clast, outsideRace>>

\* the handler is killed inside fn(); at most one of the two is
RaceCrash(c) ==
    /\ cpc[c] = "loading"
    /\ \A d \in Callers : cpc[d] # "crashed"
    /\ cpc' = [cpc EXCEPT ![c] = "crashed"]
    /\ UNCHANGED <<clock, store, cres, cstored, clast, outsideRace>>

RaceStep(c) ==
    \/ RaceSelect(c)
    \/ RaceDelete(c)
    \/ RaceLoaderStarts(c)
    \/ \E v \in RaceValues : RaceLoaderReturns(c, v)
    \/ \E e \in RaceErrors : RaceLoaderRaises(c, e)

RaceNext ==
    \/ RaceTick
    \/ \E c \in Callers : RaceStep(c)
    \/ \E c \in Callers : RaceCrash(c)

SpecRace == RaceInit /\ [][RaceNext]_vars

\* every handler that is not killed keeps running: its next statement is executed
SpecRaceFair == SpecRace /\ \A c \in Callers : WF_vars(RaceStep(c))

\* a call of c is in progress / no call is in progress
InCall(c) == cpc[c] \in {"expired", "missed", "loading"}
AllFinished == \A c \in Callers : ~InCall(c)

(* C15: _cache_get_or_set acquires lock(key) by set-if-absent before it     *)
(* invokes the loader: whenever a caller enters the loader, an unexpired    *)
(* lock entry for the key (written by it, or by the caller whose lock made  *)
(* its own attempt fail) is in the store.                                   *)
C15_LockBeforeLoader ==
    [][\A c \in Callers :
          (cpc[c] # "loading" /\ cpc'[c] = "loading") =>
              (LockKey \in DOMAIN store' /\ ~Expired(store'[LockKey], clock'))]_vars

C17_RacesNeverCorrupt ==
    /\ \A c \in Callers :
          cres[c].kind = "return" =>
              /\ cres[c].val.t \in {"none", "int", "str"}
              /\ cres[c].src = "hit" => cres[c].val \in cstored
              /\ cres[c].src = "load" => cres[c].val = cres[c].wrote
    /\ (AllFinished /\ MemoKey \in DOMAIN store) =>
          (clast # <<>> /\ JsonLoads(store[MemoKey].value_json) = clast[1])

\* two loads of the key overlapped; the one that finished first returned its own
\* value, the other one wrote last and its value is the entry
C17_Witness ==
    \E c \in Callers, d \in Callers :
        /\ AllFinished
        /\ c # d
        /\ cres[c].kind = "return" /\ cres[c].src = "load" /\ "loading" \in cres[c].peers
        /\ cres[d].kind = "return" /\ cres[d].src = "load"
        /\ cres[d].val # cres[c].val
        /\ MemoKey \in DOMAIN store
        /\ JsonLoads(store[MemoKey].value_json) = cres[d].val
        /\ clast = <<cres[d].val>>

(* C32: a concurrent reader's expiry delete never destroys a fresh write:   *)
(* whatever the interleaving of cache_get(k) with the cache_set(k, v, ttl)  *)
(* of another handler, once the cache_set has committed v stays readable    *)
(* until its own ttl has elapsed (no cache_delete or cache_clear is called  *)
(* here): the lazy delete caused by reading an older, expired row never     *)
(* removes the newer row.                                                   *)
C32_FreshWriteSurvives ==
    [][(MemoKey \in DOMAIN store /\ ~Expired(store[MemoKey], clock)) =>
          MemoKey \in DOMAIN store']_vars

----------------------------------------------------------------------------
(* SpecNorm: _json_safe applied to one value x, then either applied again   *)
(* to its own result, or the result written as cache_set writes it and read *)
(* back as cache_get reads it                                               *)

\* scalars
Atoms ==
    {PyNone, PyBool(TRUE), PyInt(1), PyFloat("1.5"), PyFloat("nan"), PyStr("a"), PyStr("1"),
     PyDate("2024-01-02"), NpInt(1), NpFloat("1.5"), NpBool(FALSE), PyObj("<Ticker>")}
\* dict keys, set elements (hashable, pairwise unequal in Python), dict values
KeyAtoms == {PyStr("a"), PyStr("1"), PyInt(1), PyNone}
SetAtoms == {PyNone, PyInt(1), PyStr("a"), PyFloat("1.5"), PyDate("2024-01-02")}
ValueAtoms == {PyNone, PyInt(1), PyDate("2024-01-02"), NpFloat("1.5"), PyObj("<Ticker>")}

SeqsUpTo(S, n) == UNION {[1..k -> S] : k \in 0..n}
Distinct(q) == \A i \in 1..Len(q), j \in 1..Len(q) : i # j => q[i] # q[j]
Pairs == KeyAtoms \X ValueAtoms
PairSeqs ==
    {q \in SeqsUpTo(Pairs, NormMaxLen) :
        \A i \in 1..Len(q), j \in 1..Len(q) : i # j => q[i][1] # q[j][1]}

\* containers of scalars
Flat ==
    {PyList(q) : q \in SeqsUpTo(Atoms, NormMaxLen)}
    \cup {PyTuple(q) : q \in SeqsUpTo(Atoms, NormMaxLen)}
    \cup {PySet(q) : q \in {r \in SeqsUpTo(SetAtoms, NormMaxLen) : Distinct(r)}}
    \cup {PyDict(q) : q \in PairSeqs}
    \cup {DictLike(q, FALSE, "<FastInfo>") : q \in PairSeqs}
    \cup {DictLike(<<>>, TRUE, "<FastInfo>")}

\* containers of containers
Nested ==
    {PyList(<<c>>) : c \in Flat}
    \cup {PyTuple(<<PyDate("2024-01-02"), c>>) : c \in Flat}
    \cup {PyDict(<<<<PyInt(1), c>>>>) : c \in Flat}

Inputs == Atoms \cup Flat \cup Nested

NormInit ==
    /\ clock = 0
    /\ store = EmptyStore
    /\ StoreOpIdle
    /\ MemoIdle
    /\ YFIdle
    /\ HttpIdle
    /\ QuotaIdle
    /\ RaceIdle
    /\ ExtIdle
    /\ npc = "in"
    /\ nin \in Inputs
    /\ nout = PyNone /\ nagain = PyNone
    /\ ntext = JsonDumps(PyNone) /\ nback = PyNone

\* finance_data.py line 65: val = _json_safe(val)
Normalize ==
    /\ npc = "in"
    /\ npc' = "safe"
    /\ nout' = JsonSafe(nin)
    /\ UNCHANGED <<nin, nagain, ntext, nback, outsideNorm>>

\* _json_safe applied to a value that is already normalized (lines 143, 200, 232
\* followed by line 65)
NormalizeAgain ==
    /\ npc = "safe"
    /\ npc' = "twice"
    /\ nagain' = JsonSafe(nout)
    /\ UNCHANGED <<nin, nout, ntext, nback, outsideNorm>>

\* cache_set line 70: json.dumps(value); cache_get line 50: json.loads(value_json)
StoreRoundTrip ==
    /\ npc = "safe"
    /\ npc' = "stored"
    /\ ntext' = JsonDumps(nout)
    /\ nback' = JsonLoads(ntext')
    /\ UNCHANGED <<nin, nout, nagain, outsideNorm>>

NormNext ==
    \/ Normalize
    \/ NormalizeAgain
    \/ StoreRoundTrip

SpecNorm == NormInit /\ [][NormNext]_vars

\* NormalizedValue: null | bool | number | string | array<NormalizedValue>
\*                  | map<string, NormalizedValue>
RECURSIVE InGrammar(_)
InGrammar(v) ==
    CASE v.t \in {"none", "bool", "int", "float", "str"} -> TRUE
      [] v.t = "list" -> \A i \in 1..Len(v.items) : InGrammar(v.items[i])
      [] v.t = "dict" ->
            \A i \in 1..Len(v.items) : v.items[i][1].t = "str" /\ InGrammar(v.items[i][2])
      [] OTHER -> FALSE

C19_Idempotent ==
    npc = "twice" => nagain = nout

\* normalizing changed a dict with keys that are no strings, normalizing again changed nothing
C19_Witness ==
    /\ npc = "twice"
    /\ nin.t = "dict"
    /\ \E i \in 1..Len(nin.items) : nin.items[i][1].t # "str"
    /\ nout # nin
    /\ nagain = nout

(* C20: for every input x, the JSON text cache_set writes for _json_safe(x), *)
(* parsed back as cache_get does, is structurally equal to _json_safe(x).   *)
C20_StoreRoundTrip ==
    npc = "stored" => nback = nout

\* a normalized map holding a float, a date string and a former tuple came back equal
C20_Witness ==
    /\ npc = "stored"
    /\ nin.t = "dict"
    /\ Len(nin.items) = 1
    /\ nin.items[1][2].t = "tuple"
    /\ \E i \in 1..Len(nin.items[1][2].items) : nin.items[1][2].items[i].t = "np.floating"
    /\ nout.t = "dict"
    /\ ntext.j = "object"
    /\ nback = nout

----------------------------------------------------------------------------
(* SpecPage: two browser sessions, each logged in as one of Users, running  *)
(* page_analysis again and again over several UTC days; the runs of the two *)
(* sessions interleave between their accesses to the table                  *)

PageInit ==
    /\ clock = 0
    /\ store = EmptyStore
    /\ StoreOpIdle
    /\ MemoIdle
    /\ YFIdle
    /\ HttpIdle
    /\ QuotaIdle
    /\ RaceIdle
    /\ NormIdle
    /\ psess \in [Sessions -> Users]
    /\ ppc = [s \in Sessions |-> "idle"]
    /\ ploc = [s \in Sessions |-> NoLocals]
    /\ pres = [s \in Sessions |-> NoRun]
    /\ pfetches = NoFetches
    /\ pstep = <<>>
    /\ SecThreadsIdle
    /\ fres = NoFault
    /\ PerfIdle
    /\ LateIdle

\* time passes, QuotaStepHours hours at a time
PageTick ==
    /\ clock < QuotaSteps * QuotaStepHours * 3600 * TicksPerSec
    /\ clock' = clock + QuotaStepHours * 3600 * TicksPerSec
    /\ pstep' = <<"", "tick">>
    /\ UNCHANGED <<store, psess, ppc, ploc, pres, pfetches, outsidePage>>

\* the fetching runs of one user on one day that the model follows: one more
\* than the limit
PageFollowed(user) ==
    pfetches[user].day = TodayKey(clock) => pfetches[user].n <= DAILY_LIMIT

\* page_analysis lines 68-141: the sidebar (remaining_searches), the admin's
\* clear button, the search form; act is what the user did to cause the run
PageRun(s, act) ==
    /\ ppc[s] = "idle"
    /\ LET user == psess[s]
           email == GetUserEmail(user)
           counted == ~IsAdmin(user) /\ email # ""
           st1 == IF counted THEN CacheGetStore(store, UsageKey(email, clock), clock)
                  ELSE store
       IN  CASE act = "clear" ->
                  /\ IsAdmin(user)
                  /\ IF ClearAllBound
                     THEN /\ store' = CacheClearStore(st1, {})
                          /\ pres' = [pres EXCEPT ![s] = [NoRun EXCEPT !.kind = "cleared"]]
                     ELSE /\ store' = st1
                          /\ pres' = [pres EXCEPT ![s] =
                                         [NoRun EXCEPT !.kind = "raise", !.exc = "ImportError"]]
                  /\ UNCHANGED <<ppc, ploc>>
             [] act = "view" ->
                  /\ store' = st1
                  /\ pres' = [pres EXCEPT ![s] = [NoRun EXCEPT !.kind = "view"]]
                  /\ UNCHANGED <<ppc, ploc>>
             [] act = "submit" ->
                  /\ PageFollowed(user)
                  /\ store' = st1
                  /\ ppc' = [ppc EXCEPT ![s] = IF counted THEN "gate" ELSE "fetch"]
                  /\ ploc' = [ploc EXCEPT ![s] = [NoLocals EXCEPT !.email = email]]
                  /\ pres' = [pres EXCEPT ![s] = NoRun]
    /\ pstep' = <<s, act>>
    /\ UNCHANGED <<clock, psess, pfetches, outsidePage>>

\* page_analysis lines 144-145 with consume_search lines 27-36: the counter is
\* read and the search refused or not
PageConsumeRead(s) ==
    /\ ppc[s] = "gate"
    /\ LET k == UsageKey(ploc[s].email, clock)
           used == UsedOf(CacheGetResult(store, k, clock))
       IN  /\ store' = CacheGetStore(store, k, clock)
           /\ IF OverLimit(used, DefaultCost, DAILY_LIMIT)
              THEN /\ ppc' = [ppc EXCEPT ![s] = "idle"]
                   /\ ploc' = [ploc EXCEPT ![s] = NoLocals]
                   /\ pres' = [pres EXCEPT ![s] =
                                  [NoRun EXCEPT !.kind = "rejected", !.gated = TRUE]]
              ELSE /\ ppc' = [ppc EXCEPT ![s] = "write"]
                   /\ ploc' = [ploc EXCEPT ![s] =
                                  [@ EXCEPT !.key = k, !.used = used + DefaultCost]]
                   /\ UNCHANGED pres
    /\ pstep' = <<s, "read">>
    /\ UNCHANGED <<clock, psess, pfetches, outsidePage>>

\* consume_search lines 38-40: the new count is written, (True, remaining)
PageConsumeWrite(s) ==
    /\ ppc[s] = "write"
    /\ store' = CacheSetStore(store, ploc[s].key, PyInt(ploc[s].used), {QuotaTtl}, clock)
    /\ ppc' = [ppc EXCEPT ![s] = "fetch"]
    /\ ploc' = [ploc EXCEPT ![s] = [@ EXCEPT !.allowed = TRUE]]
    /\ pfetches' = [pfetches EXCEPT ![psess[s]] =
                       IF @.okday = ploc[s].key[4] THEN [@ EXCEPT !.ok = @ + 1]
                       ELSE [@ EXCEPT !.okday = ploc[s].key[4], !.ok = 1]]
    /\ pstep' = <<s, "write">>
    /\ UNCHANGED <<clock, psess, pres, outsidePage>>

\* page_analysis lines 159-164: the data fetch
PageFetch(s) ==
    /\ ppc[s] = "fetch"
    /\ store' = FetchStore(store, clock)
    /\ ppc' = [ppc EXCEPT ![s] = "idle"]
    /\ pres' = [pres EXCEPT ![s] =
                   [NoRun EXCEPT !.kind = "fetched", !.allowed = ploc[s].allowed,
                                 !.gated = ploc[s].allowed]]
    /\ ploc' = [ploc EXCEPT ![s] = NoLocals]
    /\ pfetches' = [pfetches EXCEPT ![psess[s]] =
                       IF @.day = TodayKey(clock) THEN [@ EXCEPT !.n = @ + 1]
                       ELSE [@ EXCEPT !.day = TodayKey(clock), !.n = 1]]
    /\ pstep' = <<s, "fetch">>
    /\ UNCHANGED <<clock, psess, outsidePage>>

PageNext ==
    \/ PageTick
    \/ \E s \in Sessions, act \in {"view", "clear", "submit"} : PageRun(s, act)
    \/ \E s \in Sessions : PageConsumeRead(s)
    \/ \E s \in Sessions : PageConsumeWrite(s)
    \/ \E s \in Sessions : PageFetch(s)

SpecPage == PageInit /\ [][PageNext]_vars

\* the used count recorded for the user's identity on the UTC day of now
UsedToday(st, user, now) ==
    UsedOf(CacheGetResult(st, UsageKey(GetUserEmail(user), now), now))

(* C21: within one UTC day the used count recorded for an identity never    *)
(* decreases from one moment to a later one, whatever the application does  *)
(* in between; it is back at 0 only when the UTC day of the key changes.    *)
C21_QuotaMonotone ==
    [][TodayKey(clock') = TodayKey(clock) =>
          \A u \in Users : UsedToday(store', u, clock') >= UsedToday(store, u, clock)]_vars

(* C22: in every run of the analysis page by a logged-in user who is not an *)
(* admin, data is fetched only after consume_search has returned allowed =  *)
(* True in that run, a run whose consume_search refused fetches nothing,    *)
(* and so no such user gets the fetches of more than DAILY_LIMIT submitted  *)
(* searches on one UTC day.                                                 *)
C22_QuotaGatesFetch ==
    /\ \A s \in Sessions :
          ~IsAdmin(psess[s]) =>
              /\ ppc[s] = "fetch" => ploc[s].allowed
              /\ pres[s].kind = "fetched" => pres[s].allowed
              /\ pres[s].kind = "rejected" => ppc[s] # "fetch"
    /\ \A u \in Users : ~IsAdmin(u) => pfetches[u].n <= DAILY_LIMIT

(* C33: for any interleaving of the consume_search calls that parallel      *)
(* handlers make for one identity on one UTC day, with cost 1, the number   *)
(* of calls that return allowed = True is at most daily_limit and the used  *)
(* count in the store equals the number of allowed calls.                   *)
C33_QuotaUnderConcurrency ==
    \A u \in Users :
        (~IsAdmin(u) /\ GetUserEmail(u) # "" /\ pfetches[u].okday = TodayKey(clock)) =>
            /\ pfetches[u].ok <= DAILY_LIMIT
            /\ UsedToday(store, u, clock) = pfetches[u].ok

\* a key of cached financial data
DataKey(k) == k[1] # "usage:searches:"

(* C26: when an admin triggers the clear-cache action of the analysis page, *)
(* cache_store's clear is executed and no cached financial data entry is    *)
(* left in the table afterwards.                                            *)
C26_AdminFlush ==
    \A s \in Sessions :
        pstep = <<s, "clear">> =>
            /\ pres[s].kind = "cleared"
            /\ \A k \in DOMAIN store : ~DataKey(k)

----------------------------------------------------------------------------
(* SpecSec: the threads of one process calling sec_client.get_json again    *)
(* and again; time is secWall, in units of _MIN_INTERVAL_SEC                *)

SecInit ==
    /\ clock = 0
    /\ store = EmptyStore
    /\ StoreOpIdle
    /\ MemoIdle
    /\ YFIdle
    /\ QuotaIdle
    /\ RaceIdle
    /\ NormIdle
    /\ PageIdle
    /\ client = "sec"
    /\ rcfg = [hasKey |-> FALSE, ttl |-> 0, errTtl |-> 0]
    /\ rpc = "idle"
    /\ rattempt = 0
    /\ rres = NoHttpResult
    /\ rhist = NoRapidHist
    /\ rtrack = NoRapidTrack
    /\ sres = NoHttpResult
    /\ secWall = 2
    /\ secLastCallTs = 0
    /\ gpc = [t \in Threads |-> "idle"]
    /\ gwake = [t \in Threads |-> 0]
    /\ ghist = NoSecHist
    /\ fres = NoFault
    /\ PerfIdle
    /\ LateIdle

\* time passes; a thread that is not asleep may be kept waiting by the scheduler
SecWallTick ==
    /\ secWall < 2 + SecHorizon
    /\ secWall' = secWall + 1
    /\ UNCHANGED <<secLastCallTs, secThreadVars, outsideSecThreads>>

\* _throttle lines 32-35: now = time.time(); wait = ...; time.sleep(wait) begins
SecThrottleRead(t) ==
    /\ gpc[t] = "idle"
    /\ gwake' = [gwake EXCEPT ![t] = SecThrottleEnd(secWall, secLastCallTs)]
    /\ gpc' = [gpc EXCEPT ![t] = "sleep"]
    /\ UNCHANGED <<secWall, secLastCallTs, ghist, outsideSecThreads>>

\* _throttle line 36 once the sleep, if any, is over: _last_call_ts = time.time();
\* get_json line 50: the request is issued
SecStampAndRequest(t) ==
    /\ gpc[t] = "sleep"
    /\ secWall >= gwake[t]
    /\ secLastCallTs' = secWall
    /\ ghist' = [requests |-> IF ghist.requests < 2 THEN ghist.requests + 1 ELSE 2,
                 last |-> secWall,
                 apart |-> ghist.apart /\ (ghist.requests > 0 => secWall - ghist.last >= 1)]
    /\ gpc' = [gpc EXCEPT ![t] = "idle"]
    /\ UNCHANGED <<secWall, gwake, outsideSecThreads>>

SecThreadsNext ==
    \/ SecWallTick
    \/ \E t \in Threads : SecThrottleRead(t)
    \/ \E t \in Threads : SecStampAndRequest(t)

SpecSec == SecInit /\ [][SecThreadsNext]_vars

(* C23: for any interleaving of the threads of one process calling          *)
(* sec_client.get_json, the check and update of the shared last-call        *)
(* timestamp is atomic, so any two SEC requests are issued at least         *)
(* _MIN_INTERVAL_SEC (0.25 s) apart.                                        *)
C23_SecRequestsApart == ghist.apart

----------------------------------------------------------------------------
(* SpecFault: cache_store on a store that fails: a statement may end in an  *)
(* sqlite3 error (disk I/O error, database locked), and the text of a       *)
(* stored value may have been damaged in the file                           *)

FaultValues == {PyStr("a"), PyInt(1)}
FaultTTLs == {{}, {1}}

\* a value_json that json.loads cannot parse
DamagedText == [j |-> "damaged"]

FaultInit ==
    /\ clock = 0
    /\ store = EmptyStore
    /\ StoreOpIdle
    /\ MemoIdle
    /\ YFIdle
    /\ HttpIdle
    /\ QuotaIdle
    /\ RaceIdle
    /\ NormIdle
    /\ PageIdle
    /\ SecThreadsIdle
    /\ fres = NoFault
    /\ PerfIdle
    /\ LateIdle

FaultTick ==
    /\ clock < MaxClock
    /\ clock' = clock + 1
    /\ UNCHANGED <<store, fres, outsideFault>>

\* the file is damaged under the row of k
FaultDamage(k) ==
    /\ k \in DOMAIN store
    /\ store[k].value_json # DamagedText
    /\ store' = [store EXCEPT ![k].value_json = DamagedText]
    /\ fres' = NoFault
    /\ UNCHANGED <<clock, outsideFault>>

\* a statement of the call fails: nothing in cache_store.py catches sqlite3.Error
SqlError(op, k) ==
    [op |-> op, key |-> k, fault |-> "io", kind |-> "raise",
     exc |-> "sqlite3.OperationalError", val |-> PyNone]

\* cache_get lines 26-52; io: the SELECT fails
FaultGet(k, io) ==
    /\ IF io
       THEN store' = store /\ fres' = SqlError("get", k)
       ELSE /\ store' = CacheGetStore(store, k, clock)
            /\ fres' = [op |-> "get", key |-> k,
                        fault |-> IF /\ k \in DOMAIN store
                                     /\ ~Expired(store[k], clock)
                                     /\ store[k].value_json = DamagedText
                                  THEN "unreadable" ELSE "none",
                        kind |-> "return", exc |-> "",
                        val |-> CacheGetResult(store, k, clock)]
    /\ UNCHANGED <<clock, outsideFault>>

\* cache_set lines 55-76; io: the INSERT fails
FaultSet(k, v, ttl, io) ==
    /\ IF io
       THEN store' = store /\ fres' = SqlError("set", k)
       ELSE /\ store' = CacheSetStore(store, k, v, ttl, clock)
            /\ fres' = [NoFault EXCEPT !.op = "set", !.key = k, !.kind = "return"]
    /\ UNCHANGED <<clock, outsideFault>>

\* cache_delete lines 79-85; io: the DELETE fails
FaultDelete(k, io) ==
    /\ IF io
       THEN store' = store /\ fres' = SqlError("delete", k)
       ELSE /\ store' = CacheDeleteStore(store, k)
            /\ fres' = [NoFault EXCEPT !.op = "delete", !.key = k, !.kind = "return"]
    /\ UNCHANGED <<clock, outsideFault>>

\* cache_clear lines 88-97; io: the DELETE fails
FaultClear(prefix, io) ==
    /\ IF io
       THEN store' = store /\ fres' = SqlError("clear", <<>>)
       ELSE /\ store' = CacheClearStore(store, prefix)
            /\ fres' = [NoFault EXCEPT !.op = "clear", !.kind = "return"]
    /\ UNCHANGED <<clock, outsideFault>>

FaultNext ==
    \/ FaultTick
    \/ \E k \in StoreKeys : FaultDamage(k)
    \/ \E k \in StoreKeys, io \in BOOLEAN : FaultGet(k, io)
    \/ \E k \in StoreKeys, v \in FaultValues, ttl \in FaultTTLs, io \in BOOLEAN :
          FaultSet(k, v, ttl, io)
    \/ \E k \in StoreKeys, io \in BOOLEAN : FaultDelete(k, io)
    \/ \E p \in StorePrefixes, io \in BOOLEAN : FaultClear(p, io)

SpecFault == FaultInit /\ [][FaultNext]_vars

(* C28: a store-layer failure during cache_get, cache_set, cache_delete or  *)
(* cache_clear (an I/O error, a stored value that cannot be read) reaches   *)
(* the caller as an error of the store; it is never turned silently into    *)
(* an "absent" result, nor ignored.                                         *)
C28_StoreFailuresSurface ==
    fres.fault # "none" => (fres.kind = "raise" /\ fres.exc # "")

----------------------------------------------------------------------------
(* SpecPerf: get_perf_metrics on the daily price series of a ticker.  A     *)
(* float is PyFloat(<<n, d>>), the quotient n / d in lowest terms with      *)
(* d > 0, and PyFloat(<<0, 0>>) is nan; for the two results that are not    *)
(* rational, cagr is PyFloat(<<e, s, days>>), standing for                  *)
(* (e / s) ** (365.25 / days) - 1, and volatility is PyFloat(<<n, d>>) for  *)
(* the square root of n / d                                                 *)

PerfMaxLen == 3
Prices == {50, 100, 200}

Abs(n) == IF n < 0 THEN 0 - n ELSE n

RECURSIVE Gcd(_, _)
Gcd(a, b) == IF b = 0 THEN a ELSE Gcd(b, a % b)

\* n / d as a float
Quot(n, d) ==
    IF d = 0 THEN <<0, 0>>
    ELSE LET g == Gcd(Abs(n), Abs(d)) IN <<n \div g, d \div g>>

Nan == PyFloat(<<0, 0>>)

\* line 351: closes.pct_change().dropna()
PctChange(closes) ==
    [i \in 1..(Len(closes) - 1) |-> Quot(closes[i + 1] - closes[i], closes[i])]

RECURSIVE Product(_)
Product(ds) == IF ds = <<>> THEN 1 ELSE Head(ds) * Product(Tail(ds))

RECURSIVE Sum(_)
Sum(xs) == IF xs = <<>> THEN 0 ELSE Head(xs) + Sum(Tail(xs))

\* Series.std() squared: the sum of the squared deviations from the mean over
\* (k - 1), which is 0 / 0 for a single observation
SampleVariance(rets) ==
    LET k == Len(rets)
        den == Product([i \in 1..k |-> rets[i][2]])
        x == [i \in 1..k |-> rets[i][1] * (den \div rets[i][2])]
        dev == [i \in 1..k |-> (k * x[i] - Sum(x)) * (k * x[i] - Sum(x))]
    IN  <<Sum(dev), (k * den) * (k * den) * (k - 1)>>

\* lines 352-354: vol = None; if not rets.empty: vol = float(rets.std() * (252 ** 0.5))
Volatility(rets) ==
    IF rets = <<>> THEN PyNone
    ELSE LET var == SampleVariance(rets) IN PyFloat(Quot(252 * var[1], var[2]))

\* (mutant of CumMax: the peak is the price of the day itself)
CumMaxOfDay(closes) == closes

\* line 356: closes.cummax()
CumMax(closes) ==
    [i \in 1..Len(closes) |->
        CHOOSE m \in {closes[j] : j \in 1..i} : \A j \in 1..i : closes[j] <= m]

\* lines 357-358: dd = (closes / peak) - 1.0; float(dd.min()) if not dd.empty else None
MaxDrawdown(closes) ==
    LET peak == CumMax(closes)
        dd == [i \in 1..Len(closes) |-> <<closes[i] - peak[i], peak[i]>>]
    IN  IF dd = <<>> THEN PyNone
        ELSE LET m == CHOOSE i \in 1..Len(dd) :
                          \A j \in 1..Len(dd) : dd[i][1] * dd[j][2] <= dd[j][1] * dd[i][2]
             IN  PyFloat(Quot(dd[m][1], dd[m][2]))

\* lines 345-349: n_days, years_span, cagr; the prices are one day apart
Cagr(closes) ==
    LET n_days == Len(closes) - 1
    IN  IF n_days > 0 /\ closes[1] > 0
        THEN PyFloat(<<closes[Len(closes)], closes[1], n_days>>)
        ELSE PyNone

PerfYears == 5

\* _load of get_perf_metrics, lines 327-367
PerfLoad(closes) ==
    IF closes = <<>>
    THEN PyDict(<< <<PyStr("years"), PyInt(PerfYears)>>, <<PyStr("cagr"), PyNone>>,
                   <<PyStr("volatility"), PyNone>>, <<PyStr("max_drawdown"), PyNone>>,
                   <<PyStr("start"), PyNone>>, <<PyStr("end"), PyNone>> >>)
    ELSE PyDict(<< <<PyStr("years"), PyInt(PerfYears)>>, <<PyStr("cagr"), Cagr(closes)>>,
                   <<PyStr("volatility"), Volatility(PctChange(closes))>>,
                   <<PyStr("max_drawdown"), MaxDrawdown(closes)>>,
                   <<PyStr("start"), PyStr("day 1")>>,
                   <<PyStr("end"), PyStr("day " \o ToString(Len(closes)))>> >>)

\* d[name] of a dict
Field(d, name) ==
    LET i == CHOOSE i \in 1..Len(d.items) : d.items[i][1] = PyStr(name) IN d.items[i][2]

PerfInit ==
    /\ clock = 0
    /\ store = EmptyStore
    /\ StoreOpIdle
    /\ MemoIdle
    /\ YFIdle
    /\ HttpIdle
    /\ QuotaIdle
    /\ RaceIdle
    /\ NormIdle
    /\ PageIdle
    /\ SecThreadsIdle
    /\ fres = NoFault
    /\ hpc = "in"
    /\ hcloses \in UNION {[1..n -> Prices] : n \in 0..PerfMaxLen}
    /\ hres = PyNone
    /\ LateIdle

\* get_perf_metrics line 369 on a cache miss: _cache_get_or_set returns
\* _json_safe(_load())
PerfMiss ==
    /\ hpc = "in"
    /\ hres' = JsonSafe(PerfLoad(hcloses))
    /\ hpc' = "loaded"
    /\ UNCHANGED <<hcloses, outsidePerf>>

\* get_perf_metrics line 369 on a cache hit: what cache_get parses from the text
\* cache_set wrote
PerfHit ==
    /\ hpc = "loaded"
    /\ hres' = JsonLoads(JsonDumps(hres))
    /\ hpc' = "cached"
    /\ UNCHANGED <<hcloses, outsidePerf>>

PerfNext == PerfMiss \/ PerfHit

SpecPerf == PerfInit /\ [][PerfNext]_vars

(* C29: for an empty price series and for a series of a single point,       *)
(* get_perf_metrics returns null for each of cagr, volatility and           *)
(* max_drawdown, and does not raise.                                        *)
C29_UndefinedOnShortSeries ==
    (hpc # "in" /\ Len(hcloses) <= 1) =>
        /\ hres.t = "dict"
        /\ Field(hres, "cagr") = PyNone
        /\ Field(hres, "volatility") = PyNone
        /\ Field(hres, "max_drawdown") = PyNone

(* C30: get_perf_metrics returns volatility = null whenever the series      *)
(* yields fewer than 2 daily returns (fewer than 3 prices), and a number    *)
(* only when there are at least 2 returns.                                  *)
C30_VolatilityDefinedness ==
    hpc # "in" =>
        /\ Len(hcloses) < 3 => Field(hres, "volatility") = PyNone
        /\ (Field(hres, "volatility").t = "float" /\ Field(hres, "volatility") # Nan)
              => Len(hcloses) >= 3

\* the largest of the prices up to day t
RECURSIVE RunningMax(_, _)
RunningMax(prices, t) ==
    IF t = 1 THEN prices[1] ELSE Max(RunningMax(prices, t - 1), prices[t])

NonDecreasing(prices) == \A i \in 1..(Len(prices) - 1) : prices[i] <= prices[i + 1]

(* C31: for every series of at least two positive prices, max_drawdown is   *)
(* the minimum over t of price_t / max(price_0..price_t) - 1; it is never   *)
(* positive, and it is 0 exactly when the series is monotonically           *)
(* non-decreasing ([100, 50, 100] gives -0.50).                             *)
C31_MaxDrawdown ==
    (hpc # "in" /\ Len(hcloses) >= 2) =>
        LET m == Field(hres, "max_drawdown")
            n == m.f[1]
            d == m.f[2]
        IN  /\ m.t = "float"
            /\ d > 0
            /\ \A t \in 1..Len(hcloses) :
                  n * RunningMax(hcloses, t) <= (hcloses[t] - RunningMax(hcloses, t)) * d
            /\ \E t \in 1..Len(hcloses) :
                  n * RunningMax(hcloses, t) = (hcloses[t] - RunningMax(hcloses, t)) * d
            /\ n <= 0
            /\ (n = 0) <=> NonDecreasing(hcloses)

\* [100, 50, 100] has given -0.50, read back from the cache
C31_Witness ==
    /\ hpc = "cached"
    /\ hcloses = <<100, 50, 100>>
    /\ Field(hres, "max_drawdown") = PyFloat(<<-1, 2>>)

----------------------------------------------------------------------------
(* SpecDerived: one handler calling get_price_data, get_history_daily,      *)
(* get_perf_metrics, get_drawdown_daily and get_dividend_metrics for one    *)
(* ticker over DerivedSteps * DerivedStepHours hours; every upstream call   *)
(* succeeds                                                                 *)

DerivedStepHours == 3
DerivedSteps == 4

HistKey == <<"yf:hist:", "AAPL", ":", "5", "y">>
DrawdownKey == <<"yf:dd:", "AAPL", ":", "5", "y">>
PerfKey == <<"yf:perf:", "AAPL", ":", "5", "y">>
DivsKey == <<"yf:divs:", "AAPL", ":", "5", "y">>
DivMetricsKey == <<"yf:divmetrics:", "AAPL", ":", "5", "y">>

\* get_history_daily, get_drawdown_daily, get_perf_metrics: ttl = 60 * 60 * 6
HistTtl == 60 * 60 * 6
\* get_dividends_series, get_dividend_metrics: ttl = 60 * 60 * 24 * 90
DivTtl == 60 * 60 * 24 * 90

\* what Yahoo quotes at a time: the price moves from hour to hour
UpstreamPrice(now) == 50 * (1 + ((IntTime(now) \div 3600) % 4))

\* _cache_get_or_set, lines 61-63: the key is served from the table; val is
\* the value returned and from the time its upstream data was fetched
Served(c, key, now) ==
    [st |-> CacheGetStore(c.st, key, now), org |-> c.org,
     val |-> CacheGetResult(c.st, key, now), from |-> c.org[key]]

\* _cache_get_or_set, line 61 on a miss: cache_get has deleted an expired row
Missed(c, key, now) == [st |-> CacheGetStore(c.st, key, now), org |-> c.org]

\* _cache_get_or_set, lines 64-67: the loader's value is normalized, stored and returned
Loaded(c, key, ttl, now, val, from) ==
    [st |-> CacheSetStore(c.st, key, JsonSafe(val), {ttl}, now),
     org |-> (key :> from) @@ c.org,
     val |-> JsonSafe(val), from |-> from]

IsHit(c, key, now) == CacheGetResult(c.st, key, now) # PyNone

\* get_price_data: the quote, fetched when the key misses
GetPriceData(c, now) ==
    IF IsHit(c, MemoKey, now) THEN Served(c, MemoKey, now)
    ELSE Loaded(Missed(c, MemoKey, now), MemoKey, QuoteTtl, now,
                PyDict(<< <<PyStr("last_price"), PyInt(UpstreamPrice(now))>> >>), now)

\* get_history_daily: the Close column of the records, fetched when the key misses
GetHistoryDaily(c, now) ==
    IF IsHit(c, HistKey, now) THEN Served(c, HistKey, now)
    ELSE Loaded(Missed(c, HistKey, now), HistKey, HistTtl, now,
                PyList(<<PyInt(100), PyInt(UpstreamPrice(now))>>), now)

\* df["Close"] of the history returned
ClosesOf(records) == [i \in 1..Len(records.items) |-> records.items[i].n]

\* get_perf_metrics: _cache_get_or_set("yf:perf:...", 6 h, _load), _load reading
\* get_history_daily
GetPerfMetrics(c, now) ==
    IF IsHit(c, PerfKey, now) THEN Served(c, PerfKey, now)
    ELSE LET h == GetHistoryDaily(Missed(c, PerfKey, now), now)
         IN  Loaded(h, PerfKey, HistTtl, now, PerfLoad(ClosesOf(h.val)), h.from)

\* lines 300-311: the Drawdown column, (s / peak) - 1.0
Drawdowns(closes) ==
    LET peak == CumMax(closes)
    IN  PyList([i \in 1..Len(closes) |-> PyFloat(Quot(closes[i] - peak[i], peak[i]))])

\* get_drawdown_daily: _cache_get_or_set("yf:dd:...", 6 h, _load), _load reading
\* get_history_daily
GetDrawdownDaily(c, now) ==
    IF IsHit(c, DrawdownKey, now) THEN Served(c, DrawdownKey, now)
    ELSE LET h == GetHistoryDaily(Missed(c, DrawdownKey, now), now)
         IN  Loaded(h, DrawdownKey, HistTtl, now, Drawdowns(ClosesOf(h.val)), h.from)

\* get_dividends_series: one dividend of 4 in the last twelve months
GetDividendsSeries(c, now) ==
    IF IsHit(c, DivsKey, now) THEN Served(c, DivsKey, now)
    ELSE Loaded(Missed(c, DivsKey, now), DivsKey, DivTtl, now, PyList(<<PyInt(4)>>), now)

\* get_dividend_metrics: _cache_get_or_set("yf:divmetrics:...", 90 days, _load),
\* _load reading get_price_data and get_dividends_series; from is the time the
\* quote was fetched
GetDividendMetrics(c, now) ==
    IF IsHit(c, DivMetricsKey, now) THEN Served(c, DivMetricsKey, now)
    ELSE LET p == GetPriceData(Missed(c, DivMetricsKey, now), now)
             d == GetDividendsSeries(p, now)
             ttm == Sum(ClosesOf(d.val))
         IN  Loaded(d, DivMetricsKey, DivTtl, now,
                    PyDict(<< <<PyStr("ttm_dividend"), PyInt(ttm)>>,
                              <<PyStr("ttm_yield"),
                                PyFloat(Quot(ttm, Field(p.val, "last_price").n))>>,
                              <<PyStr("div_cagr"), PyNone>> >>),
                    p.from)

DerivedInit ==
    /\ clock = 0
    /\ store = EmptyStore
    /\ StoreOpIdle
    /\ MemoIdle
    /\ YFIdle
    /\ HttpIdle
    /\ QuotaIdle
    /\ RaceIdle
    /\ NormIdle
    /\ PageIdle
    /\ SecThreadsIdle
    /\ fres = NoFault
    /\ PerfIdle
    /\ DerivedIdle
    /\ TickerIdle

\* time passes, DerivedStepHours hours at a time
DerivedTick ==
    /\ clock < DerivedSteps * DerivedStepHours * 3600 * TicksPerSec
    /\ clock' = clock + DerivedStepHours * 3600 * TicksPerSec
    /\ UNCHANGED <<store, dorigin, dres, outsideDerived>>

DerivedNow == [st |-> store, org |-> dorigin]

\* the origins of the rows left in the table
Origins(r) == [k \in DOMAIN r.st |-> r.org[k]]

\* what the call returned, and the age of the upstream data behind it
DerivedResult(fn, r) == [fn |-> fn, val |-> r.val, age |-> clock - r.from]

\* the handler calls get_price_data
CallPriceData ==
    LET r == GetPriceData(DerivedNow, clock)
    IN  /\ store' = r.st
        /\ dorigin' = Origins(r)
        /\ dres' = DerivedResult("get_price_data", r)
        /\ UNCHANGED <<clock, outsideDerived>>

\* the handler calls get_history_daily
CallHistoryDaily ==
    LET r == GetHistoryDaily(DerivedNow, clock)
    IN  /\ store' = r.st
        /\ dorigin' = Origins(r)
        /\ dres' = DerivedResult("get_history_daily", r)
        /\ UNCHANGED <<clock, outsideDerived>>

\* the handler calls get_perf_metrics
CallPerfMetrics ==
    LET r == GetPerfMetrics(DerivedNow, clock)
    IN  /\ store' = r.st
        /\ dorigin' = Origins(r)
        /\ dres' = DerivedResult("get_perf_metrics", r)
        /\ UNCHANGED <<clock, outsideDerived>>

\* the handler calls get_drawdown_daily
CallDrawdownDaily ==
    LET r == GetDrawdownDaily(DerivedNow, clock)
    IN  /\ store' = r.st
        /\ dorigin' = Origins(r)
        /\ dres' = DerivedResult("get_drawdown_daily", r)
        /\ UNCHANGED <<clock, outsideDerived>>

\* the handler calls get_dividend_metrics
CallDividendMetrics ==
    LET r == GetDividendMetrics(DerivedNow, clock)
    IN  /\ store' = r.st
        /\ dorigin' = Origins(r)
        /\ dres' = DerivedResult("get_dividend_metrics", r)
        /\ UNCHANGED <<clock, outsideDerived>>

DerivedNext ==
    \/ DerivedTick
    \/ CallPriceData
    \/ CallHistoryDaily
    \/ CallPerfMetrics
    \/ CallDrawdownDaily
    \/ CallDividendMetrics

SpecDerived == DerivedInit /\ [][DerivedNext]_vars

(* C37: whenever get_perf_metrics, get_drawdown_daily or                    *)
(* get_dividend_metrics returns a value, the upstream data it was computed  *)
(* from was fetched no longer ago than the TTL of that dataset: 5 minutes   *)
(* for the quote behind ttm_yield, 6 hours for the price history behind     *)
(* cagr, volatility and max_drawdown.                                       *)
C37_DerivedWithinSourceTtl ==
    /\ dres.fn \in {"get_perf_metrics", "get_drawdown_daily"} =>
          dres.age <= HistTtl * TicksPerSec
    /\ dres.fn = "get_dividend_metrics" => dres.age <= QuoteTtl * TicksPerSec

----------------------------------------------------------------------------
(* SpecTicker: one handler calling ticker_to_cik10 again and again over     *)
(* TickerSteps * TickerStepDays days, the SEC answering each request with   *)
(* one of Answers                                                           *)

TickerStepDays == 15
TickerSteps == 3

\* sec_ticker_map.py lines 11-12
TickerMapKey == <<"sec:ticker_map:v1">>
TickerMapTtl == 60 * 60 * 24 * 30

\* d.get(k)
DictGet(d, k) ==
    IF \E i \in 1..Len(d.items) : d.items[i][1] = k
    THEN d.items[CHOOSE i \in 1..Len(d.items) : d.items[i][1] = k][2]
    ELSE PyNone

\* _normalize_ticker: (t or "").strip().upper().replace(".", "-")
NormalizeTicker(v) ==
    IF ~Truthy(v) THEN PyStr("")
    ELSE PyStr(CASE v.s = " aapl" -> "AAPL"
                 [] v.s = "BRK.B" -> "BRK-B"
                 [] v.s = "brk.b" -> "BRK-B"
                 [] v.s = " "     -> ""
                 [] OTHER         -> v.s)

Zeros(n) == IF n <= 0 THEN "" ELSE SubSeq(<<"0", "00", "000", "0000", "00000", "000000",
                                               "0000000", "00000000", "000000000">>, n, n)[1]

\* _pad_cik: f"{int(cik):010d}", None when int(cik) raises
PadCik(cik) ==
    IF cik.t = "int" /\ cik.n >= 0
    THEN PyStr(Zeros(10 - Len(ToString(cik.n))) \o ToString(cik.n))
    ELSE PyNone

\* the rows of company_tickers.json
TickerRow(ticker, cik) ==
    PyDict(<< <<PyStr("cik_str"), cik>>, <<PyStr("ticker"), ticker>> >>)
Apple == TickerRow(PyStr("AAPL"), PyInt(320193))
Berkshire == TickerRow(PyStr("BRK.B"), PyInt(1067983))

NoAnswer == [kind |-> "raise", data |-> PyNone]
Answer(data) == [kind |-> "json", data |-> data]

\* what a request for company_tickers.json can give: the file with one or two
\* companies, a file with damaged rows only, an empty object, something that
\* is no object, a SecClientError
Answers ==
    {Answer(PyDict(<< <<PyStr("0"), Apple>> >>)),
     Answer(PyDict(<< <<PyStr("0"), Apple>>, <<PyStr("1"), Berkshire>> >>)),
     Answer(PyDict(<< <<PyStr("0"), PyStr("junk")>>,
                      <<PyStr("1"), TickerRow(PyNone, PyInt(5))>>,
                      <<PyStr("2"), TickerRow(PyStr("MSFT"), PyNone)>> >>)),
     Answer(PyDict(<<>>)),
     Answer(PyList(<<>>)),
     NoAnswer}

\* lines 38-46: out[ticker] = cik10 for every row that is a dict with both
RECURSIVE BuildMap(_)
BuildMap(rows) ==
    IF rows = <<>> THEN <<>>
    ELSE LET out == BuildMap(SubSeq(rows, 1, Len(rows) - 1))
             row == rows[Len(rows)][2]
         IN  IF row.t # "dict" THEN out
             ELSE LET ticker == NormalizeTicker(DictGet(row, PyStr("ticker")))
                      cik10 == PadCik(DictGet(row, PyStr("cik_str")))
                  IN  IF Truthy(ticker) /\ Truthy(cik10) THEN DictPut(out, ticker, cik10)
                      ELSE out

\* lines 32-33: isinstance(hit, dict) and hit
MapHit(hit) == hit.t = "dict" /\ hit.items # <<>>

\* (mutant of GetTickerMap: the cached map is never used)
GetTickerMapNoCache(st, now, force_refresh, answer) ==
    IF answer.kind = "raise"
    THEN [st |-> st, kind |-> "raise", mp |-> PyNone, requests |-> 1]
    ELSE LET out == PyDict(IF answer.data.t = "dict" THEN BuildMap(answer.data.items) ELSE <<>>)
         IN  [st |-> CacheSetStore(st, TickerMapKey, out, {TickerMapTtl}, now),
              kind |-> "return", mp |-> out, requests |-> 1]

\* get_ticker_map(force_refresh), the request, if one is made, answered by answer
GetTickerMap(st, now, force_refresh, answer) ==
    LET hit == IF force_refresh THEN PyNone ELSE CacheGetResult(st, TickerMapKey, now)
        st1 == IF force_refresh THEN st ELSE CacheGetStore(st, TickerMapKey, now)
    IN  IF ~force_refresh /\ MapHit(hit)
        THEN [st |-> st1, kind |-> "return", mp |-> hit, requests |-> 0]
        ELSE IF answer.kind = "raise"
        THEN [st |-> st1, kind |-> "raise", mp |-> PyNone, requests |-> 1]
        ELSE LET out == PyDict(IF answer.data.t = "dict" THEN BuildMap(answer.data.items)
                               ELSE <<>>)
             IN  [st |-> CacheSetStore(st1, TickerMapKey, out, {TickerMapTtl}, now),
                  kind |-> "return", mp |-> out, requests |-> 1]

\* the CIK the cached map holds for the normalized ticker t, None if it holds none
CachedCik(st, now, t) ==
    LET hit == CacheGetResult(st, TickerMapKey, now)
    IN  IF MapHit(hit) THEN DictGet(hit, t) ELSE PyNone

\* ticker_to_cik10(ticker), its requests answered by a1 and then a2
TickerToCik10(st, now, ticker, a1, a2) ==
    LET t == NormalizeTicker(ticker)
        g1 == GetTickerMap(st, now, FALSE, a1)
        cik == DictGet(g1.mp, t)
        g2 == GetTickerMap(g1.st, now, TRUE, IF g1.requests = 0 THEN a1 ELSE a2)
        first == IF g1.requests = 1 /\ g1.kind = "return" THEN <<g1.mp>> ELSE <<>>
    IN  IF g1.kind = "raise"
        THEN [st |-> g1.st, kind |-> "raise", ret |-> PyNone, requests |-> g1.requests,
              forced |-> 0, maps |-> <<>>]
        ELSE IF Truthy(cik)
        THEN [st |-> g1.st, kind |-> "return", ret |-> cik, requests |-> g1.requests,
              forced |-> 0, maps |-> first]
        ELSE IF g2.kind = "raise"
        THEN [st |-> g2.st, kind |-> "raise", ret |-> PyNone,
              requests |-> g1.requests + g2.requests, forced |-> 1, maps |-> first]
        ELSE [st |-> g2.st, kind |-> "return", ret |-> DictGet(g2.mp, t),
              requests |-> g1.requests + g2.requests, forced |-> 1,
              maps |-> Append(first, g2.mp)]

Tickers == {PyStr("AAPL"), PyStr(" aapl"), PyStr("BRK.B"), PyStr("ZZZ"), PyStr("")}

TickerInit ==
    /\ clock = 0
    /\ store = EmptyStore
    /\ StoreOpIdle
    /\ MemoIdle
    /\ YFIdle
    /\ HttpIdle
    /\ QuotaIdle
    /\ RaceIdle
    /\ NormIdle
    /\ PageIdle
    /\ SecThreadsIdle
    /\ fres = NoFault
    /\ PerfIdle
    /\ DerivedIdle
    /\ TickerIdle

\* time passes, TickerStepDays days at a time
TickerTick ==
    /\ clock < TickerSteps * TickerStepDays * SecondsPerDay * TicksPerSec
    /\ clock' = clock + TickerStepDays * SecondsPerDay * TicksPerSec
    /\ UNCHANGED <<store, kres, outsideTicker>>

\* the handler calls ticker_to_cik10(ticker)
TickerCall(ticker, a1, a2) ==
    LET r == TickerToCik10(store, clock, ticker, a1, a2)
    IN  /\ store' = r.st
        /\ kres' = [kind |-> r.kind, ticker |-> ticker, ret |-> r.ret,
                    requests |-> r.requests, forced |-> r.forced,
                    cached |-> CachedCik(store, clock, NormalizeTicker(ticker)),
                    maps |-> r.maps, at |-> clock]
        /\ UNCHANGED <<clock, outsideTicker>>

TickerNext ==
    \/ TickerTick
    \/ \E ticker \in Tickers, a1 \in Answers, a2 \in Answers : TickerCall(ticker, a1, a2)

SpecTicker == TickerInit /\ [][TickerNext]_vars

(* C38: ticker_to_cik10 issues no upstream request when the ticker is       *)
(* present in the cached ticker map, and otherwise at most two requests per *)
(* call, at most one of them a forced refresh, returning the CIK found in   *)
(* the refreshed map or None; each refresh overwrites the cached map with   *)
(* the newly downloaded one.                                                *)
C38_BoundedRefresh ==
    kres.kind # "none" =>
        /\ Truthy(kres.cached) =>
              (kres.kind = "return" /\ kres.ret = kres.cached /\ kres.requests = 0)
        /\ kres.requests <= 2
        /\ kres.forced <= 1
        /\ (~Truthy(kres.cached) /\ kres.kind = "return") =>
              /\ kres.maps # <<>>
              /\ kres.ret = DictGet(kres.maps[Len(kres.maps)], NormalizeTicker(kres.ticker))
        /\ kres.maps # <<>> =>
              (/\ TickerMapKey \in DOMAIN store
               /\ store[TickerMapKey] = Row(kres.maps[Len(kres.maps)], kres.at, {TickerMapTtl}))

\* the cache was empty, the first download had no BRK-B, the forced refresh had
\* it: two requests, the CIK of the second map returned and that map stored
C38_Witness ==
    /\ kres.kind = "return"
    /\ kres.ticker = PyStr("BRK.B")
    /\ kres.requests = 2
    /\ kres.forced = 1
    /\ Len(kres.maps) = 2
    /\ kres.ret = PyStr("0001067983")
    /\ CacheGetResult(store, TickerMapKey, clock) = kres.maps[2]

====
